---- MODULE Spec2Model ----
(***************************************************************************)
(* Travel-assistant backend: the user-state store (dynamodb_client.py),    *)
(* the alert aggregation handlers (lambda_functions/alerts_handler.py),    *)
(* the itinerary and booking handlers (lambda_functions/), and the         *)
(* weather and news adapters and the flight token cache (api_clients/).    *)
(*                                                                         *)
(* A Python dict is a function whose domain is its set of keys, a list is  *)
(* a sequence.  json.dumps followed by json.loads is the identity on the   *)
(* values stored here (string keys, lists, integers, booleans, strings),   *)
(* so an attribute of a table item holds the value itself.  Time is        *)
(* counted in whole hours; an ISO timestamp is the hour it denotes.  A     *)
(* value that is None in Python is -1 where an integer is expected and     *)
(* "None" where a string is.  The title and message texts of the generated *)
(* alerts are formatted from the fields kept here and are left out.        *)
(* The token cache counts seconds, one step of the clock being a minute    *)
(* there; relevance scores are kept in tenths; a booking id                *)
(* booking_<int(timestamp)> is the clock value it was made at.             *)
(***************************************************************************)
EXTENDS Integers, Sequences, FiniteSets, TLC

VARIABLES table, now, resp, last, acked, streak, calls, inflight, flights_api

vars == <<table, now, resp, last, acked, streak, calls, inflight, flights_api>>

(* ----------------------------- bounds --------------------------------- *)

MaxClock == 1
MaxCalls == 2
MaxRefresh == 1
MaxBookings == 2
MaxDestinations == 2

(* --------------------------- dictionaries ----------------------------- *)

EmptyDict == [k \in {} |-> 0]

None == [py_none |-> TRUE]

Falsy(d) == d = None \/ DOMAIN d = {}

Put(d, k, v) == (k :> v) @@ d

Get(d, k, default) == IF k \in DOMAIN d THEN d[k] ELSE default

Range(s) == {s[i] : i \in DOMAIN s}

(* ------------------------------ inputs -------------------------------- *)

Users == {"u1"}

UserIdInputs == Users \cup {""}

TTLHours == 8760

(* ------------------------- dynamodb_client.py -------------------------- *)

NoItem == EmptyDict

ItemExists(tbl, u) == "UserID" \in DOMAIN tbl[u]

put_item(tbl, u, item) == [tbl EXCEPT ![u] = item]

update_item(tbl, u, attr, value, t) ==
    [tbl EXCEPT ![u] = (attr :> value) @@ ("UpdatedAt" :> t) @@ ("UserID" :> u) @@ tbl[u]]

save_user_data_item(u, data, t) ==
    ("UserID" :> u) @@ ("Data" :> data) @@ ("UpdatedAt" :> t) @@ ("TTL" :> t + TTLHours)
    @@ (IF "itinerary" \in DOMAIN data THEN "CurrentItinerary" :> data["itinerary"] ELSE EmptyDict)
    @@ (IF "preferences" \in DOMAIN data THEN "Preferences" :> data["preferences"] ELSE EmptyDict)
    @@ (IF "bookings" \in DOMAIN data THEN "Bookings" :> data["bookings"] ELSE EmptyDict)

\* Returns the table after the call and the boolean the method returns; a
\* ClientError raised by put_item is caught and leaves the table as it was.
save_user_data(tbl, u, data, t, writeOk) ==
    IF writeOk
    THEN [table |-> put_item(tbl, u, save_user_data_item(u, data, t)), ret |-> TRUE]
    ELSE [table |-> tbl, ret |-> FALSE]

\* A ClientError raised by get_item is caught and None is returned.
get_user_data(tbl, u, readOk) ==
    IF ~readOk \/ ~ItemExists(tbl, u)
    THEN None
    ELSE LET item == tbl[u] IN
         ("user_id" :> u)
         @@ ("updated_at" :> Get(item, "UpdatedAt", -1))
         @@ ("data" :> Get(item, "Data", EmptyDict))
         @@ (IF "CurrentItinerary" \in DOMAIN item
             THEN "current_itinerary" :> item["CurrentItinerary"] ELSE EmptyDict)
         @@ (IF "Preferences" \in DOMAIN item
             THEN "preferences" :> item["Preferences"] ELSE EmptyDict)
         @@ (IF "Bookings" \in DOMAIN item
             THEN "bookings" :> item["Bookings"] ELSE EmptyDict)

save_itinerary(tbl, u, itinerary, t, writeOk) ==
    IF writeOk
    THEN [table |-> update_item(tbl, u, "CurrentItinerary", itinerary, t), ret |-> TRUE]
    ELSE [table |-> tbl, ret |-> FALSE]

save_preferences(tbl, u, preferences, t, writeOk) ==
    IF writeOk
    THEN [table |-> update_item(tbl, u, "Preferences", preferences, t), ret |-> TRUE]
    ELSE [table |-> tbl, ret |-> FALSE]

save_booking(tbl, u, booking, t, readOk, writeOk) ==
    LET existing_data == get_user_data(tbl, u, readOk)
        bookings == IF Falsy(existing_data) THEN <<>> ELSE Get(existing_data, "bookings", <<>>)
        stamped == Put(Put(booking, "booking_id", t), "created_at", t)
    IN IF writeOk
       THEN [table |-> update_item(tbl, u, "Bookings", Append(bookings, stamped), t), ret |-> TRUE]
       ELSE [table |-> tbl, ret |-> FALSE]

(* ------------------- alerts_handler.py: evaluators --------------------- *)

\* An evaluator result: the alerts it returns, whether an exception was
\* raised (and logged) inside it, and whether that exception left it.
EvalResult(alerts, raised, escaped) == [alerts |-> alerts, raised |-> raised, escaped |-> escaped]

\* datetime.fromisoformat(departure_date.replace('Z', '+00:00')): a string is
\* [fmt, t]; "naive" parses to a naive datetime, "zulu" to an aware one,
\* "garbage" does not parse.
Parses(departure_date) == departure_date.fmt \in {"naive", "zulu"}

IsAware(departure_date) == departure_date.fmt = "zulu"

FlightAlert(type, priority, booking, action_required, t) ==
    [type |-> type, priority |-> priority, booking_id |-> Get(booking, "booking_id", -1),
     action_required |-> action_required, created_at |-> t]

FlightStepUnparsed(booking, t, hit) ==
    IF Get(booking, "type", "") # "flight" \/ Get(booking, "status", "") # "confirmed"
    THEN [alerts |-> <<>>, raised |-> FALSE]
    ELSE LET flight_details == Get(booking, "details", EmptyDict) IN
         IF "departure_date" \notin DOMAIN flight_details
         THEN [alerts |-> <<>>, raised |-> FALSE]
         ELSE LET departure_date == flight_details["departure_date"] IN
              IF ~Parses(departure_date) THEN [alerts |-> <<>>, raised |-> TRUE]
              ELSE IF IsAware(departure_date) THEN [alerts |-> <<>>, raised |-> TRUE]
              ELSE LET time_diff == departure_date.t - t
                       reminder ==
                           IF 22 <= time_diff /\ time_diff <= 24
                           THEN <<FlightAlert("flight_checkin_reminder", 3, booking, TRUE, t)>>
                           ELSE IF 2 <= time_diff /\ time_diff <= 3
                           THEN <<FlightAlert("departure_reminder", 4, booking, FALSE, t)>>
                           ELSE <<>>
                       gate ==
                           IF time_diff <= 6 /\ time_diff >= 0 /\ hit
                           THEN <<FlightAlert("gate_change", 5, booking, TRUE, t)>>
                           ELSE <<>>
                   IN [alerts |-> reminder \o gate, raised |-> FALSE]

\* The body of the loop for one booking: the alerts appended and whether the
\* iteration raised (naive utcnow() subtracted from an aware datetime).
FlightStep(booking, t, hit) ==
    IF Get(booking, "type", "") # "flight" \/ Get(booking, "status", "") # "confirmed"
    THEN [alerts |-> <<>>, raised |-> FALSE]
    ELSE LET flight_details == Get(booking, "details", EmptyDict) IN
         IF "departure_date" \notin DOMAIN flight_details
         THEN [alerts |-> <<>>, raised |-> FALSE]
         ELSE LET departure_date == flight_details["departure_date"] IN
              IF ~Parses(departure_date) THEN [alerts |-> <<>>, raised |-> FALSE]
              ELSE IF IsAware(departure_date) THEN [alerts |-> <<>>, raised |-> TRUE]
              ELSE LET time_diff == departure_date.t - t
                       reminder ==
                           IF 22 <= time_diff /\ time_diff <= 24
                           THEN <<FlightAlert("flight_checkin_reminder", 3, booking, TRUE, t)>>
                           ELSE IF 2 <= time_diff /\ time_diff <= 3
                           THEN <<FlightAlert("departure_reminder", 4, booking, FALSE, t)>>
                           ELSE <<>>
                       gate ==
                           IF time_diff <= 6 /\ time_diff >= 0 /\ hit
                           THEN <<FlightAlert("gate_change", 5, booking, TRUE, t)>>
                           ELSE <<>>
                   IN [alerts |-> reminder \o gate, raised |-> FALSE]

RECURSIVE FlightLoop(_, _, _, _, _)
FlightLoop(bookings, i, t, gate, alerts) ==
    IF i > Len(bookings) THEN EvalResult(alerts, FALSE, FALSE)
    ELSE LET step == FlightStep(bookings[i], t, gate[i]) IN
         IF step.raised THEN EvalResult(alerts, TRUE, TRUE)
         ELSE FlightLoop(bookings, i + 1, t, gate, alerts \o step.alerts)

\* try/except Exception around the loop: the exception is logged, the alerts
\* appended so far are returned.
check_flight_alerts(bookings, t, gate) ==
    LET r == FlightLoop(bookings, 1, t, gate, <<>>) IN EvalResult(r.alerts, r.raised, FALSE)

\* A string as the sequence of its characters, for the descriptions and
\* keywords of this model.
Chars(string) ==
    CASE string = "Clear sky" ->
           <<"C", "l", "e", "a", "r", " ", "s", "k", "y">>
      [] string = "Heavy Rain" ->
           <<"H", "e", "a", "v", "y", " ", "R", "a", "i", "n">>
      [] string = "Severe Thunderstorm expected" ->
           <<"S", "e", "v", "e", "r", "e", " ", "T", "h", "u", "n", "d", "e", "r", "s", "t", "o", "r", "m", " ", "e", "x", "p", "e", "c", "t", "e", "d">>
      [] string = "Foggy before the storm" ->
           <<"F", "o", "g", "g", "y", " ", "b", "e", "f", "o", "r", "e", " ", "t", "h", "e", " ", "s", "t", "o", "r", "m">>
      [] string = "HURRICANE WARNING" ->
           <<"H", "U", "R", "R", "I", "C", "A", "N", "E", " ", "W", "A", "R", "N", "I", "N", "G">>
      [] string = "heavy snow" ->
           <<"h", "e", "a", "v", "y", " ", "s", "n", "o", "w">>
      [] string = "Flash Floods" ->
           <<"F", "l", "a", "s", "h", " ", "F", "l", "o", "o", "d", "s">>
      [] string = "Light Rain" ->
           <<"L", "i", "g", "h", "t", " ", "R", "a", "i", "n">>
      [] string = "Thunderstorm" ->
           <<"T", "h", "u", "n", "d", "e", "r", "s", "t", "o", "r", "m">>
      [] string = "Blizzard" ->
           <<"B", "l", "i", "z", "z", "a", "r", "d">>
      [] string = "storm" ->
           <<"s", "t", "o", "r", "m">>
      [] string = "hurricane" ->
           <<"h", "u", "r", "r", "i", "c", "a", "n", "e">>
      [] string = "blizzard" ->
           <<"b", "l", "i", "z", "z", "a", "r", "d">>
      [] string = "flood" ->
           <<"f", "l", "o", "o", "d">>
      [] string = "heavy rain" ->
           <<"h", "e", "a", "v", "y", " ", "r", "a", "i", "n">>
      [] string = "heavy snow" ->
           <<"h", "e", "a", "v", "y", " ", "s", "n", "o", "w">>
      [] string = "fog" ->
           <<"f", "o", "g">>
      [] OTHER -> <<>>

\* str.lower() on the letters that occur.
LowerChar(ch) ==
    CASE ch = "A" -> "a"
      [] ch = "B" -> "b"
      [] ch = "C" -> "c"
      [] ch = "E" -> "e"
      [] ch = "F" -> "f"
      [] ch = "G" -> "g"
      [] ch = "H" -> "h"
      [] ch = "I" -> "i"
      [] ch = "L" -> "l"
      [] ch = "N" -> "n"
      [] ch = "R" -> "r"
      [] ch = "S" -> "s"
      [] ch = "T" -> "t"
      [] ch = "U" -> "u"
      [] ch = "W" -> "w"
      [] OTHER -> ch

Lower(text) == [i \in DOMAIN text |-> LowerChar(text[i])]

\* word in text
Contains(text, word) ==
    \E i \in 0..(Len(text) - Len(word)) : SubSeq(text, i + 1, i + Len(word)) = word

SevereKeywords == {"storm", "hurricane", "blizzard", "flood"}

ModerateKeywords == {"heavy rain", "heavy snow", "fog"}

Descriptions ==
    {"",
     "Clear sky",
     "Heavy Rain",
     "Severe Thunderstorm expected",
     "Foggy before the storm",
     "HURRICANE WARNING",
     "heavy snow",
     "Flash Floods",
     "Light Rain",
     "Thunderstorm",
     "Blizzard"}

\* The keywords that occur in the lower-cased description.
KeywordTable ==
    [description \in Descriptions |->
        {keyword \in SevereKeywords \cup ModerateKeywords :
            Contains(Lower(Chars(description)), Chars(keyword))}]

KeywordsIn(description) ==
    IF description \in Descriptions THEN KeywordTable[description] ELSE {}

WeatherAlert(type, priority, location, day_forecast, action_required, t) ==
    [type |-> type, priority |-> priority, location |-> location,
     date |-> Get(day_forecast, "date", "None"),
     description |-> Get(Get(day_forecast, "conditions", EmptyDict), "description", "N/A"),
     action_required |-> action_required, created_at |-> t]

WeatherDayBoth(location, day_forecast, t) ==
    LET conditions == Get(day_forecast, "conditions", EmptyDict)
        found == KeywordsIn(Get(conditions, "description", ""))
    IN (IF found \cap SevereKeywords # {}
        THEN <<WeatherAlert("severe_weather", 4, location, day_forecast, TRUE, t)>> ELSE <<>>)
       \o (IF found \cap ModerateKeywords # {}
           THEN <<WeatherAlert("weather_advisory", 2, location, day_forecast, FALSE, t)>>
           ELSE <<>>)

WeatherDay(location, day_forecast, t) ==
    LET conditions == Get(day_forecast, "conditions", EmptyDict)
        found == KeywordsIn(Get(conditions, "description", ""))
    IN IF found \cap SevereKeywords # {}
       THEN <<WeatherAlert("severe_weather", 4, location, day_forecast, TRUE, t)>>
       ELSE IF found \cap ModerateKeywords # {}
       THEN <<WeatherAlert("weather_advisory", 2, location, day_forecast, FALSE, t)>>
       ELSE <<>>

RECURSIVE WeatherDays(_, _, _, _)
WeatherDays(location, forecast, i, t) ==
    IF i > Len(forecast) THEN <<>>
    ELSE WeatherDay(location, forecast[i], t) \o WeatherDays(location, forecast, i + 1, t)

\* What a call to a collaborator does: it raises, or it returns a result.
Raises == [raises |-> TRUE]

Returns(result) == [raises |-> FALSE, result |-> result]

\* wx[i] is what weather_api.get_forecast does for the i-th destination.
RECURSIVE WeatherLoop(_, _, _, _, _)
WeatherLoop(destinations, i, wx, t, alerts) ==
    IF i > Len(destinations) THEN EvalResult(alerts, FALSE, FALSE)
    ELSE LET destination == destinations[i] IN
         IF "location" \notin DOMAIN destination \/ "arrival_date" \notin DOMAIN destination
         THEN WeatherLoop(destinations, i + 1, wx, t, alerts)
         ELSE IF wx[i].raises THEN EvalResult(alerts, TRUE, TRUE)
         ELSE IF Falsy(wx[i].result) THEN WeatherLoop(destinations, i + 1, wx, t, alerts)
         ELSE WeatherLoop(destinations, i + 1, wx, t,
                  alerts \o WeatherDays(destination["location"],
                                        Get(wx[i].result, "forecast", <<>>), 1, t))

check_weather_alerts(itinerary, wx, t) ==
    LET r == WeatherLoop(Get(itinerary, "destinations", <<>>), 1, wx, t, <<>>)
    IN EvalResult(r.alerts, r.raised, FALSE)

\* Whether a travel keyword occurs in the lower-cased title or description,
\* tabulated for the articles of this model.
HasTravelKeyword(article) ==
    Get(article, "title", "") \in {"Border closure announced", "Airport strike looms"}

Top3(articles) == SubSeq(articles, 1, IF Len(articles) < 3 THEN Len(articles) ELSE 3)

NewsAlert(location, country, article, t) ==
    [type |-> "travel_advisory", priority |-> 3, location |-> location, country |-> country,
     title |-> Get(article, "title", ""), source |-> Get(article, "source", "Unknown"),
     action_required |-> TRUE, created_at |-> t]

RECURSIVE NewsArticles(_, _, _, _, _)
NewsArticles(location, country, articles, i, t) ==
    IF i > Len(articles) THEN <<>>
    ELSE (IF HasTravelKeyword(articles[i])
          THEN <<NewsAlert(location, country, articles[i], t)>> ELSE <<>>)
         \o NewsArticles(location, country, articles, i + 1, t)

RECURSIVE NewsLoop(_, _, _, _, _)
NewsLoop(destinations, i, nx, t, alerts) ==
    IF i > Len(destinations) THEN EvalResult(alerts, FALSE, FALSE)
    ELSE LET destination == destinations[i] IN
         IF "location" \notin DOMAIN destination
         THEN NewsLoop(destinations, i + 1, nx, t, alerts)
         ELSE LET location == destination["location"]
                  country == Get(destination, "country", location)
              IN IF nx[i].raises THEN EvalResult(alerts, TRUE, TRUE)
                 ELSE IF Falsy(nx[i].result) THEN NewsLoop(destinations, i + 1, nx, t, alerts)
                 ELSE NewsLoop(destinations, i + 1, nx, t,
                          alerts \o NewsArticles(location, country,
                                                 Top3(Get(nx[i].result, "articles", <<>>)), 1, t))

check_news_alerts(itinerary, nx, t) ==
    LET r == NewsLoop(Get(itinerary, "destinations", <<>>), 1, nx, t, <<>>)
    IN EvalResult(r.alerts, r.raised, FALSE)

\* 'passport' in filename.lower(), tabulated for the file names of this model.
HasPassport(filename) == filename \in {"my_passport_scan.pdf", "Passport.JPG"}

DocumentAlert(doc, t) ==
    [type |-> "document_expiry", priority |-> 4, document |-> Get(doc, "filename", "None"),
     action_required |-> TRUE, created_at |-> t]

RECURSIVE DocumentLoop(_, _, _, _)
DocumentLoop(documents, i, expiring, t) ==
    IF i > Len(documents) THEN <<>>
    ELSE (IF Get(documents[i], "document_type", "") = "identification"
             /\ HasPassport(Get(documents[i], "filename", "")) /\ expiring[i]
          THEN <<DocumentAlert(documents[i], t)>> ELSE <<>>)
         \o DocumentLoop(documents, i + 1, expiring, t)

\* dx is what S3Client().list_user_documents(user_id) does.
check_document_alerts_propagating(dx, expiring, t) ==
    IF dx.raises THEN EvalResult(<<>>, TRUE, TRUE)
    ELSE EvalResult(DocumentLoop(dx.result, 1, expiring, t), FALSE, FALSE)

check_document_alerts(dx, expiring, t) ==
    IF dx.raises THEN EvalResult(<<>>, TRUE, FALSE)
    ELSE EvalResult(DocumentLoop(dx.result, 1, expiring, t), FALSE, FALSE)

(* --------------------- alerts.sort(..., reverse=True) ------------------ *)

Priority(alert) == Get(alert, "priority", 0)

RECURSIVE InsertByPriorityUnstable(_, _)
InsertByPriorityUnstable(sorted, x) ==
    IF sorted = <<>> THEN <<x>>
    ELSE IF Priority(Head(sorted)) > Priority(x)
         THEN <<Head(sorted)>> \o InsertByPriorityUnstable(Tail(sorted), x)
         ELSE <<x>> \o sorted

\* Insert x after every element whose priority is at least x's: the order of
\* equal priorities is the order of arrival (list.sort is stable, and
\* reverse=True keeps the original order of equal keys).
RECURSIVE InsertByPriority(_, _)
InsertByPriority(sorted, x) ==
    IF sorted = <<>> THEN <<x>>
    ELSE IF Priority(Head(sorted)) >= Priority(x)
         THEN <<Head(sorted)>> \o InsertByPriority(Tail(sorted), x)
         ELSE <<x>> \o sorted

RECURSIVE SortFrom(_, _, _)
SortFrom(alerts, i, sorted) ==
    IF i > Len(alerts) THEN sorted
    ELSE SortFrom(alerts, i + 1, InsertByPriority(sorted, alerts[i]))

sort_by_priority_desc(alerts) == SortFrom(alerts, 1, <<>>)

(* ------------------- alerts_handler.py: handlers ----------------------- *)

NoEmitted == [flight |-> <<>>, weather |-> <<>>, news |-> <<>>, document |-> <<>>]

\* What a handler call did: the table it leaves, the HTTP status and JSON
\* body it returns, and a record of the call for the properties below
\* (found: a user record was loaded; emitted: what each evaluator returned;
\* raisedIn: the evaluators in which an exception was raised; wrote: the
\* store write was attempted; stored: the store reported success).
Outcome(tbl, status, body, found, emitted, raisedIn, wrote, stored) ==
    [table |-> tbl, status |-> status, body |-> body, found |-> found, emitted |-> emitted,
     raisedIn |-> raisedIn, wrote |-> wrote, stored |-> stored]

Rejected(tbl, status, body, found) ==
    Outcome(tbl, status, body, found, NoEmitted, {}, FALSE, FALSE)

handle_alerts(tbl, user_id, t, env) ==
    IF user_id = ""
    THEN Rejected(tbl, 400, [error |-> "Missing user_id"], FALSE)
    ELSE LET user_data == get_user_data(tbl, user_id, env.readOk) IN
         IF Falsy(user_data)
         THEN Rejected(tbl, 200, [message |-> "No user data found", alerts |-> <<>>], FALSE)
         ELSE LET flight == check_flight_alerts(Get(user_data, "bookings", <<>>), t, env.gate)
                  weather == check_weather_alerts(Get(user_data, "current_itinerary", EmptyDict),
                                                  env.wx, t)
                  news == check_news_alerts(Get(user_data, "current_itinerary", EmptyDict),
                                            env.nx, t)
                  document == check_document_alerts(env.dx, env.expiring, t)
                  emitted == [flight |-> flight.alerts, weather |-> weather.alerts,
                              news |-> news.alerts, document |-> document.alerts]
                  raisedIn == {e \in {"flight", "weather", "news", "document"} :
                                  CASE e = "flight" -> flight.raised
                                    [] e = "weather" -> weather.raised
                                    [] e = "news" -> news.raised
                                    [] e = "document" -> document.raised}
                  alerts == sort_by_priority_desc(flight.alerts \o weather.alerts
                                                  \o news.alerts \o document.alerts)
                  updated == Put(Put(user_data, "last_alert_check", t), "current_alerts", alerts)
                  saved == save_user_data(tbl, user_id, updated, t, env.writeOk)
              IN IF flight.escaped \/ weather.escaped \/ news.escaped \/ document.escaped
                 THEN Outcome(tbl, 500, [error |-> "Alert service error"], TRUE, emitted,
                              raisedIn, FALSE, FALSE)
                 ELSE Outcome(saved.table, 200,
                              [alerts |-> alerts, count |-> Len(alerts), last_updated |-> t],
                              TRUE, emitted, raisedIn, TRUE, saved.ret)

\* The same list together with the ones kept in older copies of the record
\* nested under "data".
RECURSIVE AllStored(_, _)
AllStored(d, field) ==
    Get(d, field, <<>>)
    \o (IF "data" \in DOMAIN d THEN AllStored(d["data"], field) ELSE <<>>)

\* The steps of handle_alerts between its store read and its store write:
\* the four evaluators and the sort, then the record to be saved.
evaluate_alerts(user_data, t, env) ==
    sort_by_priority_desc(
        check_flight_alerts(Get(user_data, "bookings", <<>>), t, env.gate).alerts
        \o check_weather_alerts(Get(user_data, "current_itinerary", EmptyDict), env.wx, t).alerts
        \o check_news_alerts(Get(user_data, "current_itinerary", EmptyDict), env.nx, t).alerts
        \o check_document_alerts(env.dx, env.expiring, t).alerts)

refreshed_record_merging(user_data, alerts, t) ==
    Put(Put(user_data, "last_alert_check", t), "current_alerts",
        AllStored(user_data, "current_alerts") \o alerts)

refreshed_record(user_data, alerts, t) ==
    Put(Put(user_data, "last_alert_check", t), "current_alerts", alerts)

custom_alert_of(alert_data, t) ==
    [type |-> "custom",
     priority |-> Get(alert_data, "priority", 1),
     title |-> Get(alert_data, "title", "Custom Alert"),
     message |-> Get(alert_data, "message", ""),
     trigger_date |-> Get(alert_data, "trigger_date", "None"),
     action_required |-> Get(alert_data, "action_required", FALSE),
     created_at |-> t,
     user_created |-> TRUE]

create_custom_alert(tbl, data, t, env) ==
    LET user_id == Get(data, "user_id", "")
        alert_data == Get(data, "alert", EmptyDict)
    IN IF user_id = "" \/ Falsy(alert_data)
       THEN Rejected(tbl, 400, [error |-> "Missing user_id or alert data"], FALSE)
       ELSE LET custom_alert == custom_alert_of(alert_data, t)
                loaded == get_user_data(tbl, user_id, env.readOk)
                user_data == IF Falsy(loaded) THEN EmptyDict ELSE loaded
                custom_alerts == Append(Get(user_data, "custom_alerts", <<>>), custom_alert)
                saved == save_user_data(tbl, user_id, Put(user_data, "custom_alerts", custom_alerts),
                                        t, env.writeOk)
            IN IF saved.ret
               THEN Outcome(saved.table, 200,
                            [message |-> "Custom alert created successfully", alert |-> custom_alert],
                            ~Falsy(loaded), NoEmitted, {}, TRUE, TRUE)
               ELSE Outcome(saved.table, 500, [error |-> "Failed to create alert"],
                            ~Falsy(loaded), NoEmitted, {}, TRUE, FALSE)

dismissed_entry(alert_id, t) == [alert_id |-> alert_id, dismissed_at |-> t]

dismiss_alert_not_found(tbl, data, t, env) ==
    LET user_id == Get(data, "user_id", "")
        alert_id == Get(data, "alert_id", "")
    IN IF alert_id = ""
       THEN Rejected(tbl, 400, [error |-> "Missing user_id or alert_id"], FALSE)
       ELSE LET user_data == IF user_id = "" THEN None
                             ELSE get_user_data(tbl, user_id, env.readOk) IN
            IF Falsy(user_data)
            THEN Rejected(tbl, 404, [error |-> "User data not found"], FALSE)
            ELSE LET dismissed_alerts == Append(Get(user_data, "dismissed_alerts", <<>>),
                                                dismissed_entry(alert_id, t))
                     saved == save_user_data(tbl, user_id,
                                             Put(user_data, "dismissed_alerts", dismissed_alerts),
                                             t, env.writeOk)
                 IN IF saved.ret
                    THEN Outcome(saved.table, 200, [message |-> "Alert dismissed successfully"],
                                 TRUE, NoEmitted, {}, TRUE, TRUE)
                    ELSE Outcome(saved.table, 500, [error |-> "Failed to dismiss alert"],
                                 TRUE, NoEmitted, {}, TRUE, FALSE)

dismiss_alert(tbl, data, t, env) ==
    LET user_id == Get(data, "user_id", "")
        alert_id == Get(data, "alert_id", "")
    IN IF user_id = "" \/ alert_id = ""
       THEN Rejected(tbl, 400, [error |-> "Missing user_id or alert_id"], FALSE)
       ELSE LET user_data == get_user_data(tbl, user_id, env.readOk) IN
            IF Falsy(user_data)
            THEN Rejected(tbl, 404, [error |-> "User data not found"], FALSE)
            ELSE LET dismissed_alerts == Append(Get(user_data, "dismissed_alerts", <<>>),
                                                dismissed_entry(alert_id, t))
                     saved == save_user_data(tbl, user_id,
                                             Put(user_data, "dismissed_alerts", dismissed_alerts),
                                             t, env.writeOk)
                 IN IF saved.ret
                    THEN Outcome(saved.table, 200, [message |-> "Alert dismissed successfully"],
                                 TRUE, NoEmitted, {}, TRUE, TRUE)
                    ELSE Outcome(saved.table, 500, [error |-> "Failed to dismiss alert"],
                                 TRUE, NoEmitted, {}, TRUE, FALSE)

\* What the SNS side does: the topic name cannot be built (the region or the
\* caller identity lookup raises), publish raises, or publish succeeds.
TransportOutcomes == {"identity_error", "publish_error", "ok"}

sns_message(user_id, alert) ==
    [topic |-> user_id, subject |-> Get(alert, "title", "Travel Alert"),
     default |-> Get(alert, "message", "")]

\* handed: the messages passed to sns_client.publish.
send_alert_notification_opt_in(tbl, user_id, alert, readOk, sns) ==
    LET user_data == get_user_data(tbl, user_id, readOk)
        preferences == IF Falsy(user_data) THEN EmptyDict
                       ELSE Get(user_data, "preferences", EmptyDict)
        notification_settings == Get(preferences, "notifications", EmptyDict)
        alert_type == Get(alert, "type", "")
    IN IF ~Get(notification_settings, alert_type, FALSE)
       THEN [table |-> tbl, ret |-> TRUE, handed |-> <<>>]
       ELSE IF sns = "identity_error" THEN [table |-> tbl, ret |-> FALSE, handed |-> <<>>]
       ELSE [table |-> tbl, ret |-> (sns = "ok"), handed |-> <<sns_message(user_id, alert)>>]

send_alert_notification(tbl, user_id, alert, readOk, sns) ==
    LET user_data == get_user_data(tbl, user_id, readOk)
        preferences == IF Falsy(user_data) THEN EmptyDict
                       ELSE Get(user_data, "preferences", EmptyDict)
        notification_settings == Get(preferences, "notifications", EmptyDict)
        alert_type == Get(alert, "type", "")
    IN IF ~Get(notification_settings, alert_type, TRUE)
       THEN [table |-> tbl, ret |-> TRUE, handed |-> <<>>]
       ELSE IF sns = "identity_error" THEN [table |-> tbl, ret |-> FALSE, handed |-> <<>>]
       ELSE [table |-> tbl, ret |-> (sns = "ok"), handed |-> <<sns_message(user_id, alert)>>]

(* -------------------------- itinerary_handler.py ----------------------- *)

\* Itinerary dates and durations are counted in half days, so that a date
\* with a time of day and a duration of 2.5 days have a value; a date string
\* is [fmt, t] as for departures.  timedelta.days is the floor of the
\* difference in whole days.
HalfDays(days) == 2 * days

Days(delta) == delta \div 2

IsoDate(fmt, t) == [fmt |-> fmt, t |-> t]

DefaultDurationDays == 3

\* datetime.fromisoformat(...) of both dates and their subtraction.
date_difference_raises(start_date, end_date) ==
    ~Parses(start_date) \/ ~Parses(end_date) \/ IsAware(start_date) # IsAware(end_date)

duration_of(start_date, end_date) == HalfDays(Days(end_date.t - start_date.t) + 1)

get_itinerary(tbl, u, readOk) ==
    IF ~readOk \/ ~ItemExists(tbl, u) \/ "CurrentItinerary" \notin DOMAIN tbl[u]
    THEN None
    ELSE tbl[u]["CurrentItinerary"]

RequiredFields == {"destination", "start_date", "end_date"}

create_itinerary(tbl, user_id, itinerary_data, t, writeOk) ==
    IF ~(RequiredFields \subseteq DOMAIN itinerary_data)
    THEN Rejected(tbl, 400, [error |-> "Missing required field"], FALSE)
    ELSE IF date_difference_raises(itinerary_data["start_date"], itinerary_data["end_date"])
    THEN Rejected(tbl, 500, [error |-> "Itinerary creation error"], FALSE)
    ELSE LET itinerary ==
                 [id |-> t, user_id |-> user_id,
                  destination |-> itinerary_data["destination"],
                  start_date |-> itinerary_data["start_date"],
                  end_date |-> itinerary_data["end_date"],
                  title |-> Get(itinerary_data, "title", "Trip"),
                  created_at |-> t, updated_at |-> t, status |-> "draft",
                  duration_days |-> duration_of(itinerary_data["start_date"],
                                                itinerary_data["end_date"])]
             saved == save_itinerary(tbl, user_id, itinerary, t, writeOk)
         IN IF saved.ret
            THEN Outcome(saved.table, 200,
                         [message |-> "Itinerary created successfully", itinerary |-> itinerary],
                         FALSE, NoEmitted, {}, TRUE, TRUE)
            ELSE Outcome(saved.table, 500, [error |-> "Failed to create itinerary"],
                         FALSE, NoEmitted, {}, TRUE, FALSE)

UpdatableFields ==
    {"title", "description", "days", "budget", "travelers", "preferences", "destination",
     "start_date", "end_date"}

update_itinerary(tbl, user_id, itinerary_data, t, readOk, writeOk) ==
    LET existing_itinerary == get_itinerary(tbl, user_id, readOk) IN
    IF Falsy(existing_itinerary)
    THEN Rejected(tbl, 404, [error |-> "Itinerary not found"], FALSE)
    ELSE LET changed == UpdatableFields \cap DOMAIN itinerary_data
             updated == [k \in DOMAIN existing_itinerary \cup changed \cup {"updated_at"} |->
                            IF k = "updated_at" THEN t
                            ELSE IF k \in changed THEN itinerary_data[k]
                            ELSE existing_itinerary[k]]
             recalculate == "start_date" \in DOMAIN itinerary_data
                            \/ "end_date" \in DOMAIN itinerary_data
             raises == recalculate
                       /\ (\/ "start_date" \notin DOMAIN updated
                           \/ "end_date" \notin DOMAIN updated
                           \/ date_difference_raises(updated["start_date"], updated["end_date"]))
         IN IF raises
            THEN Rejected(tbl, 500, [error |-> "Itinerary update error"], TRUE)
            ELSE LET final == IF recalculate
                              THEN Put(updated, "duration_days",
                                       duration_of(updated["start_date"], updated["end_date"]))
                              ELSE updated
                     saved == save_itinerary(tbl, user_id, final, t, writeOk)
                 IN IF saved.ret
                    THEN Outcome(saved.table, 200,
                                 [message |-> "Itinerary updated successfully",
                                  itinerary |-> final],
                                 TRUE, NoEmitted, {}, TRUE, TRUE)
                    ELSE Outcome(saved.table, 500, [error |-> "Failed to update itinerary"],
                                 TRUE, NoEmitted, {}, TRUE, FALSE)

\* What BedrockAgent._call_bedrock returns: a text holding a JSON object, or
\* a text without one (its own apology when the model call fails).  Without
\* one the day structure is the list of create_default_day_structure, and
\* itinerary_structure.get raises.
AiResponses == {"json", "text"}

Today(t) == IsoDate("naive", HalfDays(t \div 24))

generate_itinerary(tbl, user_id, preferences, t, ai, writeOk) ==
    LET duration == Get(preferences, "duration", HalfDays(DefaultDurationDays))
        start_date == Get(preferences, "start_date", Today(t))
    IN IF "destination" \notin DOMAIN preferences
       THEN Rejected(tbl, 400, [error |-> "Destination is required for itinerary generation"],
                     FALSE)
       ELSE IF ai = "text" \/ ~Parses(start_date)
       THEN Rejected(tbl, 500, [error |-> "Itinerary generation error"], FALSE)
       ELSE LET generated_itinerary ==
                    [id |-> t, user_id |-> user_id,
                     destination |-> preferences["destination"],
                     start_date |-> start_date,
                     end_date |-> IsoDate(start_date.fmt, start_date.t + duration - HalfDays(1)),
                     title |-> "AI-Generated Trip",
                     duration_days |-> duration,
                     created_at |-> t, updated_at |-> t, status |-> "draft",
                     generated_by_ai |-> TRUE]
                saved == save_itinerary(tbl, user_id, generated_itinerary, t, writeOk)
            IN IF saved.ret
               THEN Outcome(saved.table, 200,
                            [message |-> "Itinerary generated successfully",
                             itinerary |-> generated_itinerary],
                            FALSE, NoEmitted, {}, TRUE, TRUE)
               ELSE Outcome(saved.table, 500, [error |-> "Failed to save generated itinerary"],
                            FALSE, NoEmitted, {}, TRUE, FALSE)

(* --------------------------- bookings_handler.py ----------------------- *)

get_bookings(tbl, u, readOk) ==
    IF ~readOk \/ ~ItemExists(tbl, u) \/ "Bookings" \notin DOMAIN tbl[u]
    THEN <<>>
    ELSE tbl[u]["Bookings"]

\* searches[-10:]
Last10(searches) ==
    IF Len(searches) <= 10 THEN searches ELSE SubSeq(searches, Len(searches) - 9, Len(searches))

\* handle_flight_booking and handle_hotel_booking after validation: the
\* options found are kept in the user record; the boolean returned by
\* save_user_data is not looked at.
search_and_save(tbl, user_id, search_type, options, t, env) ==
    IF options = <<>>
    THEN Rejected(tbl, 200, [message |-> "No options found"], FALSE)
    ELSE LET search_data == [type |-> search_type, results |-> options, timestamp |-> t]
             loaded == get_user_data(tbl, user_id, env.readOk)
             user_data == IF Falsy(loaded) THEN EmptyDict ELSE loaded
             searches == Last10(Append(Get(user_data, "searches", <<>>), search_data))
             saved == save_user_data(tbl, user_id, Put(user_data, "searches", searches),
                                     t, env.writeOk)
         IN Outcome(saved.table, 200, [message |-> "Found options", search_id |-> t],
                    ~Falsy(loaded), NoEmitted, {}, TRUE, saved.ret)

handle_flight_booking(tbl, user_id, booking_details, options, t, env) ==
    IF ~({"origin", "destination", "departure_date"} \subseteq DOMAIN booking_details)
    THEN Rejected(tbl, 400, [error |-> "Missing required flight details"], FALSE)
    ELSE search_and_save(tbl, user_id, "flight_search", options, t, env)

handle_hotel_booking(tbl, user_id, booking_details, options, t, env) ==
    IF ~({"location", "check_in", "check_out"} \subseteq DOMAIN booking_details)
    THEN Rejected(tbl, 400, [error |-> "Missing required hotel details"], FALSE)
    ELSE search_and_save(tbl, user_id, "hotel_search", options, t, env)

confirm_booking(tbl, data, t, env) ==
    IF ~({"user_id", "booking_type", "selection"} \subseteq DOMAIN data)
    THEN Rejected(tbl, 400, [error |-> "Missing required confirmation details"], FALSE)
    ELSE LET booking_confirmation ==
                 [booking_id |-> t, user_id |-> data["user_id"], type |-> data["booking_type"],
                  details |-> data["selection"],
                  payment_status |-> IF Falsy(Get(data, "payment_details", EmptyDict))
                                     THEN "pending" ELSE "confirmed",
                  booking_date |-> t, status |-> "confirmed"]
             saved == save_booking(tbl, data["user_id"], booking_confirmation, t,
                                   env.readOk, env.writeOk)
         IN IF saved.ret
            THEN Outcome(saved.table, 200,
                         [message |-> "Booking confirmed successfully",
                          booking |-> Put(booking_confirmation, "created_at", t)],
                         FALSE, NoEmitted, {}, TRUE, TRUE)
            ELSE Outcome(saved.table, 500, [error |-> "Failed to save booking"],
                         FALSE, NoEmitted, {}, TRUE, FALSE)

cancelled(booking, t) == Put(Put(booking, "status", "cancelled"), "cancelled_at", t)

\* env.readOk is the get_item of get_bookings, env.readOk2 the one of
\* get_user_data.
cancel_booking(tbl, data, t, env) ==
    IF ~({"user_id", "booking_id"} \subseteq DOMAIN data)
    THEN Rejected(tbl, 400, [error |-> "Missing user_id or booking_id"], FALSE)
    ELSE LET user_id == data["user_id"]
             bookings == get_bookings(tbl, user_id, env.readOk)
             updated_bookings ==
                 [i \in DOMAIN bookings |->
                     IF Get(bookings[i], "booking_id", -1) = data["booking_id"]
                     THEN cancelled(bookings[i], t) ELSE bookings[i]]
             booking_found ==
                 \E i \in DOMAIN bookings : Get(bookings[i], "booking_id", -1) = data["booking_id"]
         IN IF ~booking_found
            THEN Rejected(tbl, 404, [error |-> "Booking not found"], FALSE)
            ELSE LET loaded == get_user_data(tbl, user_id, env.readOk2)
                     user_data == IF Falsy(loaded) THEN EmptyDict ELSE loaded
                     saved == save_user_data(tbl, user_id,
                                             Put(user_data, "bookings", updated_bookings),
                                             t, env.writeOk)
                 IN IF saved.ret
                    THEN Outcome(saved.table, 200,
                                 [message |-> "Booking cancelled successfully",
                                  booking_id |-> data["booking_id"]],
                                 TRUE, NoEmitted, {}, TRUE, TRUE)
                    ELSE Outcome(saved.table, 500, [error |-> "Failed to cancel booking"],
                                 TRUE, NoEmitted, {}, TRUE, FALSE)


(* ----------------------- api_clients/flights_api.py -------------------- *)

\* Times of the token cache are in seconds; a tick of the clock is a minute
\* here.
Seconds(t) == t * 60

SafetyMarginSeconds == 60

DefaultExpiresIn == 3600

\* A FlightsAPI instance after __init__: no token ("" for None), no expiry
\* (-1 for None).  For the properties it also keeps when the token in use
\* was stored and the lifetime the provider gave it.
FlightsAPI == [access_token |-> "", token_expires |-> -1, issued |-> -1, expires_in |-> 0]

\* The test at the head of _get_amadeus_token.
token_cached(api, t) ==
    api.access_token # "" /\ api.token_expires # -1 /\ t < api.token_expires

\* The rest of _get_amadeus_token once requests.post has answered: an
\* exception of the request, of raise_for_status or of response.json() is
\* logged and False is returned; so is the TypeError of an expires_in that is
\* no number, after access_token has been assigned.  A JSON value is
\* [number |-> n] or [text |-> s].
store_token(api, response, t) ==
    IF response.raises THEN [api |-> api, ret |-> FALSE]
    ELSE LET token_data == response.result
             access_token == Get(token_data, "access_token", "")
             expires_in == Get(token_data, "expires_in", [number |-> DefaultExpiresIn])
         IN IF "number" \notin DOMAIN expires_in
            THEN [api |-> [api EXCEPT !.access_token = access_token], ret |-> FALSE]
            ELSE [api |-> [access_token |-> access_token,
                           token_expires |-> t + expires_in.number - SafetyMarginSeconds,
                           issued |-> t, expires_in |-> expires_in.number],
                  ret |-> TRUE]

(* --------------------- inputs and the outside world -------------------- *)

Departure(fmt, t) == [fmt |-> fmt, t |-> t]

Flight(departure_date) ==
    [type |-> "flight", status |-> "confirmed",
     details |-> [flight_number |-> "AI101", departure_date |-> departure_date]]

BookingInputs ==
    { Flight(Departure("naive", 23)),
      Flight(Departure("naive", 3)),
      Flight(Departure("zulu", 3)),
      [type |-> "hotel", status |-> "confirmed", details |-> [check_in |-> "2026-12-01"]] }

ItineraryInputs ==
    { [destinations |-> <<[location |-> "Paris", country |-> "France",
                           arrival_date |-> "2026-12-01"]>>],
      [destination |-> "Paris", start_date |-> "2026-12-01", end_date |-> "2026-12-03",
       status |-> "draft"] }

PreferencesInputs == { [notifications |-> [severe_weather |-> FALSE]] }

Day(date, description) == [date |-> date, conditions |-> [description |-> description]]

ForecastOutcomes ==
    { Raises, Returns(None),
      Returns([location |-> "Paris", source |-> "mock",
               forecast |-> <<Day("2026-12-01", "Heavy Rain"),
                              Day("2026-12-02", "Clear sky"),
                              Day("2026-12-03", "Severe Thunderstorm expected"),
                              Day("2026-12-04", "Foggy before the storm")>>]) }

Article(title) == [title |-> title, source |-> "mock"]

NewsOutcomes ==
    { Raises, Returns(None),
      Returns([articles |-> <<Article("Border closure announced"),
                              Article("Food festival opens"),
                              Article("Airport strike looms"),
                              Article("Border closure announced")>>]) }

DocumentOutcomes ==
    { Raises, Returns(<<>>),
      Returns(<<[filename |-> "my_passport_scan.pdf", document_type |-> "identification"]>>) }

\* The calls a refresh of this user record makes to the outside world: one
\* random draw per booking, one adapter answer per destination.
BookingsOf(user_data) == IF Falsy(user_data) THEN <<>> ELSE Get(user_data, "bookings", <<>>)

DestinationsOf(user_data) ==
    IF Falsy(user_data) THEN <<>>
    ELSE Get(Get(user_data, "current_itinerary", EmptyDict), "destinations", <<>>)

DocumentCount(dx) == IF dx.raises THEN 0 ELSE Len(dx.result)

\* random.random() is drawn only for a booking inside the gate-change window.
DrawsGate(booking, t) ==
    /\ FlightStep(booking, t, TRUE).alerts # <<>>
    /\ FlightStep(booking, t, TRUE).alerts # FlightStep(booking, t, FALSE).alerts

StoreEnvs == [readOk : BOOLEAN, writeOk : BOOLEAN]

AlertSpecs ==
    { EmptyDict,
      [message |-> "Renew visa"],
      [title |-> "Pack bags"],
      [message |-> "Call hotel", priority |-> 3, action_required |-> TRUE] }

AlertIdInputs == {"", "a1"}

\* Every named field of the user record, in one dictionary.
AllFieldsData ==
    [bookings |-> <<Flight(Departure("naive", 23))>>,
     current_itinerary |-> [destination |-> "Paris"],
     preferences |-> [notifications |-> [severe_weather |-> FALSE]],
     documents |-> <<[filename |-> "my_passport_scan.pdf"]>>,
     current_alerts |-> <<[type |-> "custom", priority |-> 1]>>,
     custom_alerts |-> <<[type |-> "custom", priority |-> 2]>>,
     dismissed_alerts |-> <<[alert_id |-> "a1", dismissed_at |-> 0]>>]

\* A record written under the keys save_user_data copies into attributes.
TravellerData ==
    [itinerary |-> [destinations |-> <<[location |-> "Paris", country |-> "France",
                                        arrival_date |-> "2026-12-01"]>>],
     bookings |-> <<Flight(Departure("naive", 3)), Flight(Departure("naive", 23))>>]

UserDataInputs == { AllFieldsData, TravellerData }

\* Bookings as confirm_booking stores them, for the flight evaluator alone:
\* departures on either side of every window bound, and the kinds of booking
\* the evaluator passes over; booking_id is the position in the list.
BookingLists ==
    LET DepartureHours == {-1, 0, 2, 3, 6, 7, 10, 22, 24, 25}
        EvaluatedBookings ==
            { Flight(Departure("naive", h)) : h \in DepartureHours }
            \cup { Flight(Departure("zulu", 23)),
                   Flight(Departure("garbage", 23)),
                   [type |-> "flight", status |-> "confirmed",
                    details |-> [flight_number |-> "AI101"]],
                   [type |-> "flight", status |-> "confirmed"],
                   [type |-> "flight", status |-> "cancelled",
                    details |-> [flight_number |-> "AI101",
                                 departure_date |-> Departure("naive", 23)]],
                   [type |-> "hotel", status |-> "confirmed",
                    details |-> [departure_date |-> Departure("naive", 23)]] }
        WithIds(bookings) == [i \in DOMAIN bookings |-> Put(bookings[i], "booking_id", i)]
    IN UNION { {WithIds(bookings) : bookings \in [1..n -> EvaluatedBookings]}
               : n \in 0..MaxBookings }

\* Itineraries for the weather evaluator alone, and what get_forecast returns:
\* nothing, or a forecast (it catches every exception of the live provider).
ForecastCalled(destination) ==
    "location" \in DOMAIN destination /\ "arrival_date" \in DOMAIN destination

WeatherInputs ==
    LET DestinationInputs ==
            { [location |-> "Paris", country |-> "France", arrival_date |-> "2026-12-01"],
              [location |-> "Rome"],
              [country |-> "Spain", arrival_date |-> "2026-12-05"] }
        ForecastReturns ==
            { Returns(None),
              Returns([location |-> "Paris", source |-> "mock",
                       forecast |-> <<Day("2026-12-01", "Heavy Rain"),
                                      Day("2026-12-02", "Severe Thunderstorm expected"),
                                      Day("2026-12-03", "Foggy before the storm"),
                                      Day("2026-12-04", "Light Rain")>>]),
              Returns([location |-> "Paris", source |-> "openweathermap",
                       forecast |-> <<Day("2026-12-01", "HURRICANE WARNING"),
                                      Day("2026-12-02", "heavy snow"),
                                      Day("2026-12-03", "Flash Floods"),
                                      Day("2026-12-04", "Blizzard"),
                                      [date |-> "2026-12-05"]>>]) }
    IN
    UNION { { [itinerary |-> [destinations |-> destinations], wx |-> wx] :
                  destinations \in [1..n -> DestinationInputs],
                  wx \in [1..n -> ForecastReturns] }
            : n \in 0..MaxDestinations }

(* ------------- api_clients/weather_api.py and news_api.py -------------- *)

\* What the live provider does with one request: requests.get raises, the
\* status is not 2xx (raise_for_status raises), the body is not the expected
\* JSON (response.json() or the conversion raises), or the answer is usable.
ProviderOutcomes == {"transport_error", "non_2xx", "parse_failure", "ok"}

\* A provider method: its try body raises unless the answer is usable, and
\* its except Exception logs and returns None.
provider_method(outcome, result) ==
    LET r == IF outcome = "ok" THEN Returns(result) ELSE Raises
    IN IF r.raises THEN Returns(None) ELSE r

LiveForecast(location, source) ==
    [location |-> location, source |-> source,
     forecast |-> <<Day("2026-12-01", "light rain"), Day("2026-12-02", "clear sky")>>]

get_openweather_forecast(location, outcome) ==
    provider_method(outcome, LiveForecast(location, "openweathermap"))

get_weatherapi_forecast(location, outcome) ==
    provider_method(outcome, LiveForecast(location, "weatherapi"))

\* draws[i] is the condition random.choice picks for day i.
get_mock_forecast(location, draws) ==
    LET dates == <<"2026-12-01", "2026-12-02", "2026-12-03", "2026-12-04", "2026-12-05">>
    IN Returns([location |-> location, source |-> "mock",
                forecast |-> [i \in DOMAIN draws |-> Day(dates[i], draws[i])]])

\* except Exception around the dispatch: any exception leaving a provider
\* method is answered with the mock forecast.
get_forecast(keys, location, outcome, draws) ==
    LET r == IF keys.openweather_api_key THEN get_openweather_forecast(location, outcome)
             ELSE IF keys.weatherapi_key THEN get_weatherapi_forecast(location, outcome)
             ELSE get_mock_forecast(location, draws)
    IN IF r.raises THEN get_mock_forecast(location, draws) ELSE r

\* An article as the provider sends it stands for what the code looks at: its
\* title, whether the lower-cased location occurs in its title and in its
\* description, whether a high-priority, a medium-priority and a travel
\* keyword occurs in either, and publishedAt.  Scores are in tenths, which
\* orders them as the sums of the floats are ordered.
calculate_relevance_uncapped(article, t) ==
    LET published_at == Get(article, "publishedAt", Departure("garbage", 0))
        hours_old == t - published_at.t
        score == (IF article.location_in_title THEN 5 ELSE 0)
                 + (IF article.location_in_description THEN 3 ELSE 0)
                 + (IF article.priority_keyword THEN 4 ELSE 0)
                 + (IF article.medium_keyword THEN 2 ELSE 0)
                 + (IF ~Parses(published_at) THEN 0
                    ELSE IF hours_old < 6 THEN 2
                    ELSE IF hours_old < 24 THEN 1
                    ELSE 0)
    IN score

\* publishedAt is missing ('' does not parse), does not parse, or parses; the
\* bare except around the recency bonus passes over every exception.
calculate_relevance(article, t) ==
    LET published_at == Get(article, "publishedAt", Departure("garbage", 0))
        hours_old == t - published_at.t
        score == (IF article.location_in_title THEN 5 ELSE 0)
                 + (IF article.location_in_description THEN 3 ELSE 0)
                 + (IF article.priority_keyword THEN 4 ELSE 0)
                 + (IF article.medium_keyword THEN 2 ELSE 0)
                 + (IF ~Parses(published_at) THEN 0
                    ELSE IF hours_old < 6 THEN 2
                    ELSE IF hours_old < 24 THEN 1
                    ELSE 0)
    IN IF score < 10 THEN score ELSE 10

TopArticles == 10

\* articles.sort(key=relevance_score, reverse=True): stable, so an article
\* goes in front of the later ones that score the same.
RECURSIVE sort_by_relevance(_)
sort_by_relevance(articles) ==
    IF articles = <<>> THEN <<>>
    ELSE LET rest == sort_by_relevance(Tail(articles))
             k == Cardinality({i \in DOMAIN rest :
                                  rest[i].relevance_score > Head(articles).relevance_score})
         IN SubSeq(rest, 1, k) \o <<Head(articles)>> \o SubSeq(rest, k + 1, Len(rest))

\* found: the articles of the provider's answer.  The articles that pass
\* _is_travel_relevant are scored, sorted, and the first ten returned.
get_newsapi_travel_news(location, outcome, found, t) ==
    LET relevant == SelectSeq(found,
                        LAMBDA article :
                            /\ article.location_in_title \/ article.location_in_description
                            /\ article.travel_keyword)
        articles == sort_by_relevance(
                        [i \in DOMAIN relevant |->
                            [title |-> relevant[i].title, source |-> "Reuters",
                             relevance_score |-> calculate_relevance(relevant[i], t)]])
    IN provider_method(outcome,
           [location |-> location, source |-> "newsapi",
            articles |-> SubSeq(articles, 1,
                                IF Len(articles) < TopArticles THEN Len(articles)
                                ELSE TopArticles),
            total_found |-> Len(articles)])

\* Every result is given the score 0.8; the list is returned as it came.
get_guardian_travel_news(location, outcome, found) ==
    provider_method(outcome,
        [location |-> location, source |-> "guardian",
         articles |-> [i \in DOMAIN found |->
                          [title |-> found[i].title, source |-> "The Guardian",
                           relevance_score |-> 8]],
         total_found |-> Len(found)])

get_mock_travel_news(location) ==
    Returns([location |-> location, source |-> "mock",
             articles |-> <<[title |-> "New Flight Routes Announced", source |-> "Travel Weekly",
                             relevance_score |-> 9],
                            [title |-> "Tourism Shows Strong Recovery", source |-> "Tourism Today",
                             relevance_score |-> 7],
                            [title |-> "Weather Alert: Heavy Rain Expected",
                             source |-> "Weather Central", relevance_score |-> 8]>>,
             total_found |-> 3])

get_travel_news(keys, location, outcome, found, t) ==
    LET r == IF keys.newsapi_key THEN get_newsapi_travel_news(location, outcome, found, t)
             ELSE IF keys.guardian_api_key
             THEN get_guardian_travel_news(location, outcome, found)
             ELSE get_mock_travel_news(location)
    IN IF r.raises THEN get_mock_travel_news(location) ELSE r

\* Calls of the two adapters: the API keys configured, the location asked
\* for, what the live provider does and what the mock forecast draws.
ForecastDays == 5

AdapterInputs ==
    LET MockDraws ==
            { [i \in 1..ForecastDays |-> "Clear"],
              [i \in 1..ForecastDays |-> IF i = 2 THEN "Thunderstorm" ELSE "Heavy Rain"] }
        FoundArticle(i) ==
            [title |-> "Airport strike looms", location_in_title |-> i % 2 = 0,
             location_in_description |-> i % 3 # 0, priority_keyword |-> i % 4 = 1,
             medium_keyword |-> i % 5 = 2, travel_keyword |-> i % 7 # 0,
             publishedAt |-> Departure(IF i % 3 = 1 THEN "zulu" ELSE "naive", 0 - (i % 4) * 6)]
        Found == { [i \in 1..n |-> FoundArticle(i)] : n \in {0, 1, 3, 2 * TopArticles} }
    IN
    { [adapter |-> "weather", keys |-> [openweather_api_key |-> k1, weatherapi_key |-> k2],
       location |-> location, outcome |-> outcome, draws |-> draws] :
          k1 \in BOOLEAN, k2 \in BOOLEAN, location \in {"Paris", "Rome"},
          outcome \in ProviderOutcomes, draws \in MockDraws }
    \cup { [adapter |-> "news", keys |-> [newsapi_key |-> k1, guardian_api_key |-> k2],
             location |-> location, outcome |-> outcome, found |-> found] :
                k1 \in BOOLEAN, k2 \in BOOLEAN, location \in {"Paris", "Rome"},
                outcome \in ProviderOutcomes, found \in Found }

EvaluatorInputs ==
    { [bookings |-> bookings] : bookings \in BookingLists }
    \cup { w \in WeatherInputs :
               \A i \in DOMAIN w.wx :
                   ~ForecastCalled(w.itinerary.destinations[i]) => w.wx[i] = Returns(None) }
    \cup AdapterInputs
    \cup { [article |-> article] :
               article \in
                   [location_in_title : BOOLEAN, location_in_description : BOOLEAN,
                    priority_keyword : BOOLEAN, medium_keyword : BOOLEAN]
                   \cup [location_in_title : BOOLEAN, location_in_description : BOOLEAN,
                         priority_keyword : BOOLEAN, medium_keyword : BOOLEAN,
                         publishedAt : { Departure(fmt, t) :
                                             fmt \in {"naive", "zulu", "garbage"},
                                             t \in {-30, -24, -23, -6, -5, 0, 3} }] }


\* Refresh calls in progress: where each call is (idle, loaded, evaluated,
\* done), the record it loaded, the alerts it computed and when, its
\* response, and for the properties the order of its store write (0: none)
\* and whether the other call was between its read and its write then.
Processes == {1, 2}

Call(pc, user_data, alerts, t, response, order, raced) ==
    [pc |-> pc, user_data |-> user_data, alerts |-> alerts, t |-> t, response |-> response,
     order |-> order, raced |-> raced]

IdleCall == Call("idle", None, <<>>, 0, [status |-> 0, body |-> EmptyDict], 0, FALSE)

(* ------------------------------ the system ----------------------------- *)

NoResponse == [status |-> 0, body |-> EmptyDict]

Init ==
    /\ table = [u \in Users |-> NoItem]
    /\ now = 0
    /\ resp = NoResponse
    /\ last = [op |-> "init", user_id |-> "", input |-> EmptyDict, t |-> 0, pre |-> table,
               found |-> FALSE, emitted |-> NoEmitted, raisedIn |-> {}, wrote |-> FALSE,
               stored |-> FALSE]
    /\ acked = [u \in Users |-> <<>>]
    /\ streak = [u \in Users |-> <<>>]
    /\ calls = [total |-> 0, refresh |-> 0]
    /\ inflight = [p \in Processes |-> IdleCall]
    /\ flights_api = FlightsAPI

\* The bookkeeping every call shares: the response, the record of the call,
\* the custom alerts acknowledged so far and the current run of successful
\* consecutive creations per user.
Finish(op, user_id, input, result) ==
    \E out \in {result} :
    /\ table' = out.table
    /\ resp' = [status |-> out.status, body |-> out.body]
    /\ last' = [op |-> op, user_id |-> user_id, input |-> input, t |-> now, pre |-> table,
                found |-> out.found, emitted |-> out.emitted, raisedIn |-> out.raisedIn,
                wrote |-> out.wrote, stored |-> out.stored]
    /\ calls.total < MaxCalls
    /\ acked' = IF op = "create_custom_alert" /\ out.status = 200
                THEN [acked EXCEPT ![user_id] = Append(@, out.body.alert)]
                ELSE acked
    /\ streak' = IF user_id \notin Users THEN streak
                 ELSE IF op = "create_custom_alert" /\ out.status = 200
                 THEN [streak EXCEPT ![user_id] = Append(@, out.body.alert)]
                 ELSE [streak EXCEPT ![user_id] = <<>>]
    /\ calls' = [total |-> calls.total + 1,
                 refresh |-> calls.refresh + (IF op = "refresh" THEN 1 ELSE 0)]
    /\ UNCHANGED <<now, inflight, flights_api>>

StoreCall(op, user_id, input, r) ==
    Finish(op, user_id, input,
           Outcome(r.table, 0, [ret |-> r.ret], FALSE, NoEmitted, {}, TRUE, r.ret))

Tick ==
    /\ now < MaxClock
    /\ now' = now + 1
    /\ UNCHANGED <<table, resp, last, acked, streak, calls, inflight, flights_api>>

SaveUserData ==
    \E u \in Users, data \in UserDataInputs, writeOk \in BOOLEAN :
        /\ StoreCall("save_user_data", u, data, save_user_data(table, u, data, now, writeOk))

SaveBooking ==
    \E u \in Users, booking \in BookingInputs, env \in StoreEnvs :
        /\ StoreCall("save_booking", u, booking,
                     save_booking(table, u, booking, now, env.readOk, env.writeOk))

SaveItinerary ==
    \E u \in Users, itinerary \in ItineraryInputs, writeOk \in BOOLEAN :
        /\ StoreCall("save_itinerary", u, itinerary,
                     save_itinerary(table, u, itinerary, now, writeOk))

SavePreferences ==
    \E u \in Users, preferences \in PreferencesInputs, writeOk \in BOOLEAN :
        /\ StoreCall("save_preferences", u, preferences,
                     save_preferences(table, u, preferences, now, writeOk))

Refresh ==
    \E user_id \in UserIdInputs, readOk \in BOOLEAN, writeOk \in BOOLEAN :
        LET user_data == IF user_id \in Users THEN get_user_data(table, user_id, readOk)
                         ELSE None
        IN \E gate \in [1..Len(BookingsOf(user_data)) -> BOOLEAN],
              wx \in [1..Len(DestinationsOf(user_data)) -> ForecastOutcomes],
              nx \in [1..Len(DestinationsOf(user_data)) -> NewsOutcomes],
              dx \in DocumentOutcomes :
               \E expiring \in [1..DocumentCount(dx) -> BOOLEAN] :
                   /\ calls.refresh < MaxRefresh
                   /\ calls.total < MaxCalls
                   /\ user_id \notin Users => readOk
                   /\ Falsy(user_data) => writeOk /\ dx = Returns(<<>>)
                   /\ \A i \in DOMAIN gate :
                          gate[i] => DrawsGate(BookingsOf(user_data)[i], now)
                   /\ Finish("refresh", user_id, [user_id |-> user_id],
                             handle_alerts(table, user_id, now,
                                           [readOk |-> readOk, writeOk |-> writeOk,
                                            gate |-> gate, wx |-> wx, nx |-> nx, dx |-> dx,
                                            expiring |-> expiring]))

CreateCustomAlert ==
    \E user_id \in UserIdInputs, alert_data \in AlertSpecs, env \in StoreEnvs :
        /\ LET data == [user_id |-> user_id, alert |-> alert_data]
           IN Finish("create_custom_alert", user_id, data,
                     create_custom_alert(table, data, now, env))

DismissAlert ==
    \E user_id \in UserIdInputs, alert_id \in AlertIdInputs, env \in StoreEnvs :
        /\ LET data == [user_id |-> user_id, alert_id |-> alert_id]
           IN Finish("dismiss_alert", user_id, data,
                     dismiss_alert(table, data, now, env))

SendAlertNotification ==
    LET NotifiedAlerts ==
            { [type |-> "severe_weather", title |-> "Severe Weather Alert - Paris",
               message |-> "Severe weather expected in Paris"],
              [type |-> "weather_advisory", title |-> "Weather Advisory - Paris",
               message |-> "Weather conditions may affect travel in Paris"] }
    IN
    \E user_id \in Users, alert \in NotifiedAlerts, readOk \in BOOLEAN,
       sns \in TransportOutcomes :
        /\ LET r == send_alert_notification(table, user_id, alert, readOk, sns)
           IN Finish("send_alert_notification", user_id,
                     [alert |-> alert, readOk |-> readOk, sns |-> sns],
                     Outcome(r.table, 0, [ret |-> r.ret, handed |-> r.handed], FALSE,
                             NoEmitted, {}, FALSE, FALSE))

Next ==
    \/ Tick
    \/ SaveUserData
    \/ SaveBooking
    \/ SaveItinerary
    \/ SavePreferences
    \/ Refresh
    \/ CreateCustomAlert
    \/ DismissAlert
    \/ SendAlertNotification

Spec == Init /\ [][Next]_vars

(* ------------------------ the evaluators alone ------------------------- *)

\* The evaluator input is drawn at the start; an evaluator is then applied to
\* it at the current hour.
EvaluatorInit ==
    /\ table = [u \in Users |-> NoItem]
    /\ now = 0
    /\ resp = NoResponse
    /\ \E input \in EvaluatorInputs :
           last = [op |-> "input", user_id |-> "", input |-> input, t |-> 0, pre |-> table,
                   found |-> FALSE, emitted |-> NoEmitted, raisedIn |-> {}, wrote |-> FALSE,
                   stored |-> FALSE]
    /\ acked = [u \in Users |-> <<>>]
    /\ streak = [u \in Users |-> <<>>]
    /\ calls = [total |-> 0, refresh |-> 0]
    /\ inflight = [p \in Processes |-> IdleCall]
    /\ flights_api = FlightsAPI

Evaluated(op, input, evaluator, r) ==
    /\ last' = [last EXCEPT !.op = op, !.input = input, !.t = now,
                            !.emitted = [NoEmitted EXCEPT ![evaluator] = r.alerts],
                            !.raisedIn = IF r.raised THEN {evaluator} ELSE {}]
    /\ UNCHANGED <<table, now, resp, acked, streak, calls, inflight, flights_api>>

CheckFlightAlerts ==
    /\ last.op = "input"
    /\ "bookings" \in DOMAIN last.input
    /\ \E gate \in [DOMAIN last.input.bookings -> BOOLEAN] :
           /\ \A i \in DOMAIN gate : gate[i] => DrawsGate(last.input.bookings[i], now)
           /\ Evaluated("check_flight_alerts", Put(last.input, "gate", gate), "flight",
                        check_flight_alerts(last.input.bookings, now, gate))

CheckWeatherAlerts ==
    /\ last.op = "input"
    /\ "itinerary" \in DOMAIN last.input
    /\ Evaluated("check_weather_alerts", last.input, "weather",
                 check_weather_alerts(last.input.itinerary, last.input.wx, now))

\* An adapter call: the response is what the call does.
Adapted(op, r) ==
    /\ last' = [last EXCEPT !.op = op, !.t = now]
    /\ resp' = [status |-> 0, body |-> r]
    /\ UNCHANGED <<table, now, acked, streak, calls, inflight, flights_api>>

GetForecast ==
    /\ last.op = "input"
    /\ Get(last.input, "adapter", "") = "weather"
    /\ Adapted("get_forecast",
               get_forecast(last.input.keys, last.input.location, last.input.outcome,
                            last.input.draws))

GetTravelNews ==
    /\ last.op = "input"
    /\ Get(last.input, "adapter", "") = "news"
    /\ Adapted("get_travel_news",
               get_travel_news(last.input.keys, last.input.location, last.input.outcome,
                               last.input.found, now))

CalculateRelevance ==
    /\ last.op = "input"
    /\ "article" \in DOMAIN last.input
    /\ Adapted("calculate_relevance", calculate_relevance(last.input.article, now))

EvaluatorNext ==
    \/ Tick
    \/ CheckFlightAlerts
    \/ CheckWeatherAlerts
    \/ GetForecast
    \/ GetTravelNews
    \/ CalculateRelevance

EvaluatorSpec == EvaluatorInit /\ [][EvaluatorNext]_vars

(* ------------------------ the itinerary handlers ----------------------- *)

CreateItinerary ==
    LET CreateRequests ==
            { [destination |-> "Paris", start_date |-> IsoDate("naive", 0),
               end_date |-> IsoDate("naive", 4)],
              [destination |-> "Rome", start_date |-> IsoDate("naive", 2),
               end_date |-> IsoDate("naive", 5), title |-> "Roman weekend"],
              [destination |-> "Paris", start_date |-> IsoDate("naive", 0),
               end_date |-> IsoDate("zulu", 4)],
              [destination |-> "Paris", start_date |-> IsoDate("naive", 0)] }
    IN
    \E user_id \in Users, itinerary_data \in CreateRequests, writeOk \in BOOLEAN :
        /\ Finish("create_itinerary", user_id, itinerary_data,
                  create_itinerary(table, user_id, itinerary_data, now, writeOk))

UpdateItinerary ==
    LET UpdateRequests ==
            { [end_date |-> IsoDate("naive", 8)],
              [start_date |-> IsoDate("naive", 2), end_date |-> IsoDate("naive", 2)],
              [start_date |-> IsoDate("garbage", 0)],
              [title |-> "Renamed"] }
    IN
    \E user_id \in Users, itinerary_data \in UpdateRequests, env \in StoreEnvs :
        /\ Finish("update_itinerary", user_id, itinerary_data,
                  update_itinerary(table, user_id, itinerary_data, now, env.readOk, env.writeOk))

GenerateItinerary ==
    LET GenerateRequests ==
            { [destination |-> "Paris"],
              [destination |-> "Rome", duration |-> HalfDays(2), start_date |-> IsoDate("naive", 2)],
              [destination |-> "Rome", duration |-> HalfDays(2) + 1],
              [destination |-> "Paris", start_date |-> IsoDate("garbage", 0)],
              [duration |-> HalfDays(2)] }
    IN
    \E user_id \in Users, preferences \in GenerateRequests, ai \in AiResponses,
       writeOk \in BOOLEAN :
        /\ Finish("generate_itinerary", user_id, preferences,
                  generate_itinerary(table, user_id, preferences, now, ai, writeOk))

ItineraryNext ==
    \/ Tick
    \/ CreateItinerary
    \/ UpdateItinerary
    \/ GenerateItinerary
    \/ Refresh

ItinerarySpec == Init /\ [][ItineraryNext]_vars

(* ------------------ the booking handlers and the alerts ---------------- *)

ConfirmBooking ==
    LET ConfirmRequests ==
            { [user_id |-> "u1", booking_type |-> "flight",
               selection |-> [flight_number |-> "AI101", departure_date |-> Departure("naive", 3)],
               payment_details |-> [card |-> "4111"]],
              [user_id |-> "u1", booking_type |-> "hotel", selection |-> [hotel |-> "Ritz"]],
              [user_id |-> "u1", booking_type |-> "flight"] }
    IN
    \E data \in ConfirmRequests, env \in StoreEnvs :
        /\ Finish("confirm_booking", data.user_id, data, confirm_booking(table, data, now, env))

CancelBooking ==
    LET CancelRequests ==
            { [user_id |-> "u1", booking_id |-> booking_id] : booking_id \in 0..MaxClock }
            \cup { [user_id |-> "u1"] }
    IN
    \E data \in CancelRequests, readOk \in BOOLEAN, readOk2 \in BOOLEAN, writeOk \in BOOLEAN :
        /\ Finish("cancel_booking", data.user_id, data,
                  cancel_booking(table, data, now,
                                 [readOk |-> readOk, readOk2 |-> readOk2, writeOk |-> writeOk]))

Search ==
    LET SearchRequests ==
            { [booking_type |-> "flight",
               booking_details |-> [origin |-> "DEL", destination |-> "CDG",
                                    departure_date |-> "2026-12-01"]],
              [booking_type |-> "flight", booking_details |-> [origin |-> "DEL"]],
              [booking_type |-> "hotel",
               booking_details |-> [location |-> "Paris", check_in |-> "2026-12-01",
                                    check_out |-> "2026-12-03"]] }
        SearchOptions == { <<>>, <<[id |-> "option-1", price |-> 450]>> }
    IN
    \E user_id \in Users, request \in SearchRequests, options \in SearchOptions,
       env \in StoreEnvs :
        /\ Finish("search", user_id, request,
                  IF request.booking_type = "flight"
                  THEN handle_flight_booking(table, user_id, request.booking_details, options,
                                             now, env)
                  ELSE handle_hotel_booking(table, user_id, request.booking_details, options,
                                            now, env))

BookingNext ==
    \/ Tick
    \/ ConfirmBooking
    \/ CancelBooking
    \/ Search
    \/ Refresh
    \/ CreateCustomAlert
    \/ DismissAlert

BookingSpec == Init /\ [][BookingNext]_vars

(* --------------------- two refresh calls at once ----------------------- *)

\* The table holds nothing or one saved user record; both calls are for the
\* same user.
RaceInit ==
    /\ table \in { [u \in Users |-> NoItem] }
                 \cup { save_user_data([u \in Users |-> NoItem], "u1", data, 0, TRUE).table :
                            data \in UserDataInputs }
    /\ now = 0
    /\ resp = NoResponse
    /\ last = [op |-> "init", user_id |-> "", input |-> EmptyDict, t |-> 0, pre |-> table,
               found |-> FALSE, emitted |-> NoEmitted, raisedIn |-> {}, wrote |-> FALSE,
               stored |-> FALSE]
    /\ acked = [u \in Users |-> <<>>]
    /\ streak = [u \in Users |-> <<>>]
    /\ calls = [total |-> 0, refresh |-> 0]
    /\ inflight = [p \in Processes |-> IdleCall]
    /\ flights_api = FlightsAPI

\* get_user_data; without a record the call answers at once.
RefreshRead(p) ==
    /\ inflight[p].pc = "idle"
    /\ \E readOk \in BOOLEAN :
           LET user_data == get_user_data(table, "u1", readOk) IN
           inflight' = [inflight EXCEPT ![p] =
               IF Falsy(user_data)
               THEN Call("done", None, <<>>, now,
                         [status |-> 200,
                          body |-> [message |-> "No user data found", alerts |-> <<>>]],
                         0, FALSE)
               ELSE Call("loaded", user_data, <<>>, now, @.response, 0, FALSE)]
    /\ UNCHANGED <<table, now, resp, last, acked, streak, calls, flights_api>>

\* The evaluators, the sort and the update of the loaded record.
RefreshEvaluate(p) ==
    /\ inflight[p].pc = "loaded"
    /\ LET user_data == inflight[p].user_data IN
       \E gate \in [1..Len(BookingsOf(user_data)) -> BOOLEAN],
          wx \in [1..Len(DestinationsOf(user_data)) -> ForecastOutcomes] :
           /\ \A i \in DOMAIN gate : gate[i] => DrawsGate(BookingsOf(user_data)[i], now)
           /\ inflight' = [inflight EXCEPT ![p] =
                  Call("evaluated", user_data,
                       evaluate_alerts(user_data, now,
                                       [gate |-> gate, wx |-> wx,
                                        nx |-> [i \in DOMAIN wx |-> Returns(None)],
                                        dx |-> Returns(<<>>), expiring |-> <<>>]),
                       now, @.response, 0, FALSE)]
    /\ UNCHANGED <<table, now, resp, last, acked, streak, calls, flights_api>>

WriteOrder == Cardinality({q \in Processes : inflight[q].order > 0}) + 1

\* save_user_data, whose result is not looked at, and the answer.
RefreshWrite(p) ==
    /\ inflight[p].pc = "evaluated"
    /\ \E writeOk \in BOOLEAN :
           LET call == inflight[p]
               saved == save_user_data(table, "u1",
                                       refreshed_record(call.user_data, call.alerts, call.t),
                                       now, writeOk)
           IN /\ table' = saved.table
              /\ inflight' = [inflight EXCEPT ![p] =
                     Call("done", call.user_data, call.alerts, call.t,
                          [status |-> 200,
                           body |-> [alerts |-> call.alerts, count |-> Len(call.alerts),
                                     last_updated |-> now]],
                          IF saved.ret THEN WriteOrder ELSE 0,
                          \E q \in Processes \ {p} :
                              inflight[q].pc \in {"loaded", "evaluated"})]
    /\ UNCHANGED <<now, resp, last, acked, streak, calls, flights_api>>

RefreshStep(p) == RefreshRead(p) \/ RefreshEvaluate(p) \/ RefreshWrite(p)

RaceNext ==
    \/ Tick
    \/ \E p \in Processes : RefreshRead(p)
    \/ \E p \in Processes : RefreshEvaluate(p)
    \/ \E p \in Processes : RefreshWrite(p)

\* Each call runs in its own invocation and is carried through to its end.
RaceSpec == RaceInit /\ [][RaceNext]_vars /\ \A p \in Processes : WF_vars(RefreshStep(p))


(* ------------------- one traveller, one refresh ------------------------ *)

\* The record of a traveller as save_booking and save_itinerary leave it: one
\* confirmed flight and an itinerary with one destination.  A refresh then
\* finds a forecast with one day of heavy rain, no news and no documents.
ScenarioInit ==
    /\ \E fmt \in {"naive", "zulu"}, departure \in 22..25 :
           table = save_itinerary(
                       save_booking([u \in Users |-> NoItem], "u1",
                                    Flight(Departure(fmt, departure)), 0, TRUE, TRUE).table,
                       "u1",
                       [destinations |-> <<[location |-> "Paris", country |-> "France",
                                            arrival_date |-> "2026-12-01"]>>],
                       0, TRUE).table
    /\ now = 0
    /\ resp = NoResponse
    /\ last = [op |-> "init", user_id |-> "", input |-> EmptyDict, t |-> 0, pre |-> table,
               found |-> FALSE, emitted |-> NoEmitted, raisedIn |-> {}, wrote |-> FALSE,
               stored |-> FALSE]
    /\ acked = [u \in Users |-> <<>>]
    /\ streak = [u \in Users |-> <<>>]
    /\ calls = [total |-> 0, refresh |-> 0]
    /\ inflight = [p \in Processes |-> IdleCall]
    /\ flights_api = FlightsAPI

ScenarioRefresh ==
    LET Forecasts ==
            { [location |-> "Paris", source |-> "mock",
               forecast |-> [i \in 1..3 |->
                                Day("2026-12-01", IF i = wet THEN "Heavy Rain" ELSE dry)]] :
                  wet \in 1..3, dry \in {"Clear sky", "Light Rain"} }
        News ==
            { Returns(None),
              Returns([articles |-> <<Article("Food festival opens")>>]) }
    IN
    \E readOk \in BOOLEAN, writeOk \in BOOLEAN, forecast \in Forecasts, news \in News :
        /\ calls.refresh < MaxRefresh
        /\ LET env == [readOk |-> readOk, writeOk |-> writeOk, gate |-> <<FALSE>>,
                       wx |-> <<Returns(forecast)>>, nx |-> <<news>>,
                       dx |-> Returns(<<>>), expiring |-> <<>>]
           IN Finish("refresh", "u1", [user_id |-> "u1", wx |-> env.wx, nx |-> env.nx],
                     handle_alerts(table, "u1", now, env))

ScenarioNext ==
    \/ Tick
    \/ ScenarioRefresh

ScenarioSpec == ScenarioInit /\ [][ScenarioNext]_vars


(* ------------------- callers of _get_amadeus_token --------------------- *)

\* The callers share one FlightsAPI instance.  A call tests the cache and
\* either returns at once or sends the token request; the answer of the
\* provider arrives in a later step.
TokenInit ==
    /\ table = [u \in Users |-> NoItem]
    /\ now = 0
    /\ resp = NoResponse
    /\ last = [op |-> "init", user_id |-> "", input |-> EmptyDict, t |-> 0, pre |-> table,
               found |-> FALSE, emitted |-> NoEmitted, raisedIn |-> {}, wrote |-> FALSE,
               stored |-> FALSE]
    /\ acked = [u \in Users |-> <<>>]
    /\ streak = [u \in Users |-> <<>>]
    /\ calls = [total |-> 0, refresh |-> 0]
    /\ inflight = [p \in Processes |-> IdleCall]
    /\ flights_api = FlightsAPI

\* input.contacted: the call went on to requests.post.
TokenCheck(p) ==
    /\ inflight[p].pc = "idle"
    /\ calls.total < MaxCalls
    /\ calls' = [calls EXCEPT !.total = @ + 1]
    /\ LET cached == token_cached(flights_api, Seconds(now)) IN
       /\ inflight' = [inflight EXCEPT ![p] =
              IF cached THEN @ ELSE [@ EXCEPT !.pc = "requesting", !.t = now, !.raced = FALSE]]
       /\ resp' = IF cached THEN [status |-> 0, body |-> [ret |-> TRUE]] ELSE resp
       /\ last' = [last EXCEPT !.op = "token_check", !.t = now,
                               !.input = [caller |-> p, contacted |-> ~cached]]
    /\ UNCHANGED <<table, now, acked, streak, flights_api>>

\* input.raced: another caller stored a token while this request was out.
TokenRespond(p) ==
    LET TokenResponses ==
            { Raises,
              Returns([access_token |-> "token", expires_in |-> [number |-> 60]]),
              Returns([access_token |-> "token", expires_in |-> [number |-> 90]]),
              Returns([access_token |-> "token", expires_in |-> [number |-> 120]]),
              Returns([access_token |-> "token", expires_in |-> [number |-> 180]]),
              Returns([access_token |-> "token"]),
              Returns([expires_in |-> [number |-> 180]]),
              Returns([access_token |-> "token", expires_in |-> [text |-> "180"]]) }
    IN
    /\ inflight[p].pc = "requesting"
    /\ \E response \in TokenResponses :
           LET r == store_token(flights_api, response, Seconds(now)) IN
           /\ flights_api' = r.api
           /\ resp' = [status |-> 0, body |-> [ret |-> r.ret]]
           /\ last' = [last EXCEPT !.op = "token_response", !.t = now,
                                   !.input = [caller |-> p, ret |-> r.ret,
                                              raced |-> inflight[p].raced]]
           /\ inflight' = [q \in Processes |->
                  IF q = p THEN [inflight[q] EXCEPT !.pc = "idle"]
                  ELSE IF inflight[q].pc = "requesting" /\ r.ret
                  THEN [inflight[q] EXCEPT !.raced = TRUE]
                  ELSE inflight[q]]
    /\ UNCHANGED <<table, now, acked, streak, calls>>

TokenNext ==
    \/ Tick
    \/ \E p \in Processes : TokenCheck(p)
    \/ \E p \in Processes : TokenRespond(p)

TokenSpec == TokenInit /\ [][TokenNext]_vars


(* ---------------- two calls for one traveller at once ------------------ *)

\* A confirm_booking, cancel_booking or refresh call reads the item of the
\* user, works on what it read and writes afterwards: the first call
\* confirms a flight, the second a hotel, cancels the stored booking or
\* refreshes.  The store reads succeed.  user_data holds the items as read.
BookingRead(p) ==
    LET Requests ==
            IF p = 1
            THEN { [op |-> "confirm_booking", user_id |-> "u1", booking_type |-> "flight",
                    selection |-> [flight_number |-> "AI202"]] }
            ELSE { [op |-> "confirm_booking", user_id |-> "u1", booking_type |-> "hotel",
                    selection |-> [hotel |-> "Ritz"]],
                   [op |-> "cancel_booking", user_id |-> "u1", booking_id |-> 0],
                   [op |-> "refresh", user_id |-> "u1"] }
    IN
    /\ inflight[p].pc = "idle"
    /\ \E data \in Requests :
           inflight' = [inflight EXCEPT ![p] =
               ("data" :> data) @@ Call("loaded", table, <<>>, now, @.response, 0, FALSE)]
    /\ UNCHANGED <<table, now, resp, last, acked, streak, calls, flights_api>>

\* save_booking sets the Bookings attribute with update_item; cancel_booking
\* and the refresh replace the item with put_item.
BookingWrite(p) ==
    /\ inflight[p].pc = "loaded"
    /\ \E writeOk \in BOOLEAN :
           LET call == inflight[p]
               env == [readOk |-> TRUE, readOk2 |-> TRUE, writeOk |-> writeOk,
                       gate |-> <<FALSE>>, wx |-> <<Returns(None)>>, nx |-> <<Returns(None)>>,
                       dx |-> Returns(<<>>), expiring |-> <<>>]
               r == CASE call.data.op = "confirm_booking" ->
                             confirm_booking(call.user_data, call.data, call.t, env)
                      [] call.data.op = "cancel_booking" ->
                             cancel_booking(call.user_data, call.data, call.t, env)
                      [] call.data.op = "refresh" ->
                             handle_alerts(call.user_data, "u1", call.t, env)
           IN /\ table' = IF ~r.stored THEN table
                          ELSE IF call.data.op = "confirm_booking"
                          THEN update_item(table, "u1", "Bookings", r.table["u1"]["Bookings"],
                                           now)
                          ELSE put_item(table, "u1", r.table["u1"])
              /\ inflight' = [inflight EXCEPT ![p] =
                     [@ EXCEPT !.pc = "done",
                               !.response = [status |-> r.status, body |-> r.body]]]
    /\ UNCHANGED <<now, resp, last, acked, streak, calls, flights_api>>

BookingRaceNext ==
    \/ Tick
    \/ \E p \in Processes : BookingRead(p)
    \/ \E p \in Processes : BookingWrite(p)

BookingRaceSpec == ScenarioInit /\ [][BookingRaceNext]_vars

(* ----------------------------- properties ------------------------------ *)

Evaluators == {"flight", "weather", "news", "document"}

NamedFields ==
    {"bookings", "current_itinerary", "preferences", "documents", "current_alerts",
     "custom_alerts", "dismissed_alerts"}

\* The user's stored document and the list it holds under a field name.
StoredData(tbl, u) == Get(tbl[u], "Data", EmptyDict)

StoredList(tbl, u, field) == Get(StoredData(tbl, u), field, <<>>)

Emission ==
    last.emitted.flight \o last.emitted.weather \o last.emitted.news \o last.emitted.document

OfPriority(alerts, p) == SelectSeq(alerts, LAMBDA a : Priority(a) = p)

Count(a, alerts) == Cardinality({i \in DOMAIN alerts : alerts[i] = a})

RECURSIVE IsSubsequence(_, _)
IsSubsequence(s, t) ==
    IF s = <<>> THEN TRUE
    ELSE IF t = <<>> THEN FALSE
    ELSE IF Head(s) = Head(t) THEN IsSubsequence(Tail(s), Tail(t))
    ELSE IsSubsequence(s, Tail(t))

ReturnedAlerts == resp.body.alerts

RefreshReturnedAlerts == last.op = "refresh" /\ "alerts" \in DOMAIN resp.body

\* C1: the alert list a refresh returns has non-increasing priorities, and
\* the alerts of each priority appear in the order the evaluators emitted
\* them (flight, weather, news, document; each in its own emission order).
C1_SortedStable ==
    RefreshReturnedAlerts =>
        /\ \A i, j \in DOMAIN ReturnedAlerts :
               i < j => Priority(ReturnedAlerts[i]) >= Priority(ReturnedAlerts[j])
        /\ \A p \in {Priority(a) : a \in Range(Emission) \cup Range(ReturnedAlerts)} :
               OfPriority(ReturnedAlerts, p) = OfPriority(Emission, p)

\* A refresh whose evaluators emitted alerts out of priority order, with
\* several distinct alerts of one priority coming from different evaluators.
C1_Witness ==
    /\ RefreshReturnedAlerts
    /\ ReturnedAlerts # Emission
    /\ \E a \in Range(last.emitted.weather), b \in Range(last.emitted.document) :
           Priority(a) = Priority(b)
    /\ \E a, b \in Range(last.emitted.weather) : a # b /\ Priority(a) = Priority(b)

\* C2: every named field written by save_user_data comes back under the same
\* top-level name from the next get_user_data.
C2_StoreRoundTrip ==
    (last.op = "save_user_data" /\ last.stored) =>
        \A field \in NamedFields \cap DOMAIN last.input :
            LET got == get_user_data(table, last.user_id, TRUE)
            IN field \in DOMAIN got /\ got[field] = last.input[field]

\* C3: when an exception is raised in an evaluator during a refresh, the
\* refresh still answers normally and returns every alert emitted by the
\* evaluators that did not raise.
C3_EvaluatorFailureIsolated ==
    (last.op = "refresh" /\ last.raisedIn # {}) =>
        /\ resp.status = 200
        /\ "alerts" \in DOMAIN resp.body
        /\ "error" \notin DOMAIN resp.body
        /\ \A e \in Evaluators \ last.raisedIn :
               \A a \in Range(last.emitted[e]) :
                   Count(a, ReturnedAlerts) >= Count(a, last.emitted[e])

\* A refresh in which exactly one evaluator raised while two others emitted.
C3_Witness ==
    /\ last.op = "refresh"
    /\ resp.status = 200
    /\ \E e \in Evaluators :
           /\ last.raisedIn = {e}
           /\ Cardinality({o \in Evaluators \ {e} : last.emitted[o] # <<>>}) >= 2

\* C4: after a refresh of an existing user the stored current_alerts is the
\* returned list, last_alert_check is stamped, and count is the list length.
C4_RefreshReplaces ==
    (last.op = "refresh" /\ last.found /\ resp.status = 200) =>
        /\ "current_alerts" \in DOMAIN StoredData(table, last.user_id)
        /\ StoredList(table, last.user_id, "current_alerts") = ReturnedAlerts
        /\ Get(StoredData(table, last.user_id), "last_alert_check", -1) = last.t
        /\ resp.body.count = Len(ReturnedAlerts)

\* C5: after a refresh, every custom alert whose creation was acknowledged
\* is still in the user's stored custom_alerts list.
C5_CustomAlertsSurviveRefresh ==
    (last.op = "refresh" /\ last.user_id \in Users) =>
        \A a \in Range(acked[last.user_id]) :
            a \in Range(StoredList(table, last.user_id, "custom_alerts"))

\* C6: after n successful create_custom_alert calls in a row for a user, the
\* stored custom-alert list contains the n alerts in creation order.
C6_CreateAppends ==
    \A u \in Users :
        (last.op = "create_custom_alert" /\ last.user_id = u) =>
            IsSubsequence(streak[u], StoredList(table, u, "custom_alerts"))

\* The alerts kept for the user, in the stored record and its nested copies.
KeptAlerts(tbl, u) ==
    Range(AllStored(StoredData(tbl, u), "current_alerts")
          \o AllStored(StoredData(tbl, u), "custom_alerts"))

\* C7: dismissing an alert_id that identifies no alert of an existing user
\* returns a not-found error and does not report success.
C7_DismissUnknownAlert ==
    (/\ last.op = "dismiss_alert"
     /\ last.found
     /\ \A a \in KeptAlerts(last.pre, last.user_id) :
            \A k \in {"alert_id", "id"} \cap DOMAIN a : a[k] # last.input.alert_id)
    => (resp.status = 404 /\ "message" \notin DOMAIN resp.body)

\* C8: a successful dismiss_alert adds one entry {alert_id, dismissed_at} after
\* the stored dismissed entries and leaves the stored current_alerts as it was.
C8_DismissAppends ==
    (last.op = "dismiss_alert" /\ resp.status = 200) =>
        /\ StoredList(table, last.user_id, "dismissed_alerts")
               = Append(StoredList(last.pre, last.user_id, "dismissed_alerts"),
                        dismissed_entry(last.input.alert_id, last.t))
        /\ StoredList(table, last.user_id, "current_alerts")
               = StoredList(last.pre, last.user_id, "current_alerts")

\* C9: create_custom_alert rejects a request without user_id or without a
\* message and then writes nothing; an accepted alert that names no priority
\* or action_required is stored with priority 1 and action_required FALSE.
C9_CreateValidates ==
    last.op = "create_custom_alert" =>
        /\ (last.input.user_id = "" \/ "message" \notin DOMAIN last.input.alert)
               => (resp.status = 400 /\ table = last.pre)
        /\ resp.status = 200 =>
               LET stored == StoredList(table, last.user_id, "custom_alerts")
                   kept == stored[Len(stored)]
               IN /\ stored # <<>>
                  /\ "priority" \notin DOMAIN last.input.alert => kept.priority = 1
                  /\ "action_required" \notin DOMAIN last.input.alert
                         => kept.action_required = FALSE

\* C10: when the store write of a refresh, create_custom_alert or
\* dismiss_alert fails, the response does not read as a plain success.
C10_WriteFailureReported ==
    (/\ last.op \in {"refresh", "create_custom_alert", "dismiss_alert"}
     /\ last.wrote
     /\ ~last.stored)
    => (resp.status # 200 \/ "error" \in DOMAIN resp.body)

\* The three alert handlers by name, and two outside worlds: one in which
\* every store call and every collaborator fails, one in which none does.
Handler(op, tbl, input, t, env) ==
    CASE op = "refresh" -> handle_alerts(tbl, input.user_id, t, env)
      [] op = "create_custom_alert" -> create_custom_alert(tbl, input, t, env)
      [] op = "dismiss_alert" -> dismiss_alert(tbl, input, t, env)

AlertOps == {"refresh", "create_custom_alert", "dismiss_alert"}

FailingWorld ==
    [readOk |-> FALSE, writeOk |-> FALSE, gate |-> <<>>, wx |-> <<>>, nx |-> <<>>,
     dx |-> Raises, expiring |-> <<>>]

WorkingWorld ==
    [readOk |-> TRUE, writeOk |-> TRUE, gate |-> <<>>, wx |-> <<>>, nx |-> <<>>,
     dx |-> Returns(<<>>), expiring |-> <<>>]

\* C11: a refresh, create_custom_alert or dismiss_alert without user_id is
\* answered 400 with an error, the table is left as it was, and the answer
\* is the same whether the store and the collaborators work or fail (none of
\* them is called); dismiss_alert for a user without a stored record answers
\* 404, a different status, and leaves the table as it was.
C11_MissingUserIdRejected ==
    /\ (last.op \in AlertOps /\ last.input.user_id = "") =>
           /\ resp.status = 400
           /\ "error" \in DOMAIN resp.body
           /\ table = last.pre
           /\ ~last.found /\ ~last.wrote /\ last.emitted = NoEmitted
           /\ Handler(last.op, last.pre, last.input, last.t, FailingWorld)
                  = Handler(last.op, last.pre, last.input, last.t, WorkingWorld)
    /\ (/\ last.op = "dismiss_alert"
        /\ last.input.user_id \in Users
        /\ last.input.alert_id # ""
        /\ ~ItemExists(last.pre, last.input.user_id)) =>
           /\ resp.status = 404
           /\ table = last.pre
           /\ ~last.wrote

\* A dismiss_alert that names an alert but no user, while a user is stored.
C11_Witness ==
    /\ last.op = "dismiss_alert"
    /\ last.input.user_id = ""
    /\ last.input.alert_id # ""
    /\ resp.status = 400
    /\ \E u \in Users : ItemExists(table, u)

\* The alerts an evaluator run produced for the booking with a given id.
AlertsFor(alerts, booking_id) == SelectSeq(alerts, LAMBDA a : a.booking_id = booking_id)

OfType(alerts, type) == SelectSeq(alerts, LAMBDA a : a.type = type)

ConfirmedFlight(booking) ==
    Get(booking, "type", "") = "flight" /\ Get(booking, "status", "") = "confirmed"

HasDeparture(booking) == "departure_date" \in DOMAIN Get(booking, "details", EmptyDict)

\* The bookings the flight evaluator is to pass over.
PassedOver(booking) ==
    \/ ~ConfirmedFlight(booking)
    \/ ~HasDeparture(booking)
    \/ booking.details.departure_date.fmt = "garbage"

\* C12: for every confirmed flight booking whose departure parses, the flight
\* evaluator emits one flight_checkin_reminder of priority 3 exactly when the
\* departure is 22 to 24 hours away, one departure_reminder of priority 4
\* exactly when it is 2 to 3 hours away, a gate_change of priority 5 only when
\* it is 0 to 6 hours away, and nothing else.
C12_FlightWindows ==
    last.op = "check_flight_alerts" =>
        \A i \in DOMAIN last.input.bookings :
            LET booking == last.input.bookings[i]
                mine == AlertsFor(last.emitted.flight, i)
            IN ~PassedOver(booking) =>
                   LET time_diff == booking.details.departure_date.t - last.t IN
                   /\ Len(OfType(mine, "flight_checkin_reminder"))
                          = (IF 22 <= time_diff /\ time_diff <= 24 THEN 1 ELSE 0)
                   /\ Len(OfType(mine, "departure_reminder"))
                          = (IF 2 <= time_diff /\ time_diff <= 3 THEN 1 ELSE 0)
                   /\ Len(OfType(mine, "gate_change")) <= 1
                   /\ OfType(mine, "gate_change") # <<>> => (0 <= time_diff /\ time_diff <= 6)
                   /\ \A a \in Range(mine) :
                          \/ a.type = "flight_checkin_reminder" /\ a.priority = 3
                          \/ a.type = "departure_reminder" /\ a.priority = 4
                          \/ a.type = "gate_change" /\ a.priority = 5

\* The positions of the bookings that are not passed over, in order.
RECURSIVE KeptPositions(_, _)
KeptPositions(bookings, i) ==
    IF i > Len(bookings) THEN <<>>
    ELSE (IF PassedOver(bookings[i]) THEN <<>> ELSE <<i>>) \o KeptPositions(bookings, i + 1)

\* C13: a booking that is not a flight, is not confirmed, has no departure
\* date or has a departure date that does not parse gets no alert and raises
\* no exception: the evaluator returns what it returns for the list without
\* these bookings, and raises exactly when it raises for that list.
C13_PassedOverSilently ==
    last.op = "check_flight_alerts" =>
        LET bookings == last.input.bookings
            kept == KeptPositions(bookings, 1)
            rest == check_flight_alerts([j \in DOMAIN kept |-> bookings[kept[j]]], last.t,
                                        [j \in DOMAIN kept |-> last.input.gate[kept[j]]])
        IN /\ \A i \in DOMAIN bookings :
                  PassedOver(bookings[i]) => AlertsFor(last.emitted.flight, i) = <<>>
           /\ last.emitted.flight = rest.alerts
           /\ ("flight" \in last.raisedIn) = rest.raised
           /\ kept = <<>> => (last.emitted.flight = <<>> /\ last.raisedIn = {})

\* A departure that does not parse, followed by a flight that gets its alert.
C13_Witness ==
    /\ last.op = "check_flight_alerts"
    /\ Len(last.input.bookings) >= 2
    /\ ConfirmedFlight(last.input.bookings[1])
    /\ HasDeparture(last.input.bookings[1])
    /\ last.input.bookings[1].details.departure_date.fmt = "garbage"
    /\ AlertsFor(last.emitted.flight, 2) # <<>>
    /\ last.raisedIn = {}

\* What the weather rule asks for each description of this model, read off
\* the rule by hand: severe before moderate, letter case ignored.
ExpectedWeather(description) ==
    CASE description \in {"Severe Thunderstorm expected", "Foggy before the storm",
                          "HURRICANE WARNING", "Flash Floods", "Blizzard", "Thunderstorm"}
             -> <<[type |-> "severe_weather", priority |-> 4, action_required |-> TRUE]>>
      [] description \in {"Heavy Rain", "heavy snow"}
             -> <<[type |-> "weather_advisory", priority |-> 2, action_required |-> FALSE]>>
      [] OTHER -> <<>>

DayDescription(day_forecast) ==
    Get(Get(day_forecast, "conditions", EmptyDict), "description", "")

RECURSIVE ExpectedForDays(_, _)
ExpectedForDays(forecast, j) ==
    IF j > Len(forecast) THEN <<>>
    ELSE ExpectedWeather(DayDescription(forecast[j])) \o ExpectedForDays(forecast, j + 1)

RECURSIVE ExpectedForDestinations(_, _, _)
ExpectedForDestinations(destinations, wx, i) ==
    IF i > Len(destinations) THEN <<>>
    ELSE (IF ForecastCalled(destinations[i]) /\ ~Falsy(wx[i].result)
          THEN ExpectedForDays(Get(wx[i].result, "forecast", <<>>), 1) ELSE <<>>)
         \o ExpectedForDestinations(destinations, wx, i + 1)

KindOf(alerts) ==
    [k \in DOMAIN alerts |->
        [type |-> alerts[k].type, priority |-> alerts[k].priority,
         action_required |-> alerts[k].action_required]]

\* C14: the weather evaluator returns, destination by destination and day by
\* day, one severe_weather alert (priority 4, action required) for a day
\* whose description holds a severe keyword, otherwise one weather_advisory
\* (priority 2, no action required) for a day whose description holds a
\* moderate keyword, otherwise nothing; letter case is ignored; a destination
\* without location or arrival date, or without a forecast, adds nothing.
C14_OneWeatherAlertPerDay ==
    last.op = "check_weather_alerts" =>
        /\ KindOf(last.emitted.weather)
               = ExpectedForDestinations(last.input.itinerary.destinations, last.input.wx, 1)
        /\ \A a \in Range(last.emitted.weather) :
               \E i \in DOMAIN last.input.wx :
                   /\ ForecastCalled(last.input.itinerary.destinations[i])
                   /\ a.location = last.input.itinerary.destinations[i].location
                   /\ ~Falsy(last.input.wx[i].result)
                   /\ \E day \in Range(last.input.wx[i].result.forecast) :
                          a.date = Get(day, "date", "None")
                          /\ a.description = DayDescription(day)
        /\ last.raisedIn = {}

\* A forecast with a day holding both a moderate and a severe keyword, for an
\* itinerary that also has a destination without arrival date.
C14_Witness ==
    /\ last.op = "check_weather_alerts"
    /\ \E a \in Range(last.emitted.weather) : a.description = "Foggy before the storm"
    /\ \E i \in DOMAIN last.input.wx : ~ForecastCalled(last.input.itinerary.destinations[i])

\* The adapter call of the last step was made with a live provider
\* configured, and that provider failed.
LiveProviderFailed ==
    /\ last.op \in {"get_forecast", "get_travel_news"}
    /\ \E key \in DOMAIN last.input.keys : last.input.keys[key]
    /\ last.input.outcome # "ok"

\* C15: get_forecast and get_travel_news do not raise when the configured
\* live provider fails, and then return a result tagged source "mock",
\* never nothing.
C15_FallsBackToMock ==
    LiveProviderFailed =>
        /\ ~resp.body.raises
        /\ ~Falsy(resp.body.result)
        /\ Get(resp.body.result, "source", "") = "mock"

\* A refresh for a user whose stored record holds these bookings and nothing
\* else, with the given gate draws and no documents.
RefreshOver(bookings, gate, t) ==
    handle_alerts(save_user_data([u \in Users |-> NoItem], "u1", [bookings |-> bookings],
                                 t, TRUE).table,
                  "u1", t,
                  [readOk |-> TRUE, writeOk |-> TRUE, gate |-> gate, wx |-> <<>>, nx |-> <<>>,
                   dx |-> Returns(<<>>), expiring |-> <<>>])

\* C16: an evaluator in which an exception is raised returns no alert, and a
\* refresh over the same bookings returns none of the alerts that the flight
\* evaluator had collected before the exception.
C16_FailedEvaluatorContributesNothing ==
    /\ \A e \in last.raisedIn : last.emitted[e] = <<>>
    /\ (last.op = "check_flight_alerts" /\ "flight" \in last.raisedIn) =>
           RefreshOver(last.input.bookings, last.input.gate, last.t).body.alerts = <<>>

\* Whether a notification setting is an explicit FALSE for the alert type.
Disabled(preferences, alert) ==
    LET notifications == Get(preferences, "notifications", EmptyDict)
    IN Get(alert, "type", "") \in DOMAIN notifications /\ ~notifications[Get(alert, "type", "")]

StoredPreferences(tbl, u) == Get(tbl[u], "Preferences", EmptyDict)

LoadedPreferences(tbl, u, readOk) ==
    LET user_data == get_user_data(tbl, u, readOk)
    IN IF Falsy(user_data) THEN EmptyDict ELSE Get(user_data, "preferences", EmptyDict)

StoredItinerary(tbl, u) == Get(tbl[u], "CurrentItinerary", EmptyDict)

\* C18: every stored itinerary has duration_days equal to the whole days
\* from start_date to end_date plus 1; an update_itinerary that does not
\* succeed leaves the stored itinerary as it was.
C18_DurationMatchesDates ==
    /\ \A u \in Users :
           LET itinerary == StoredItinerary(table, u)
           IN "duration_days" \in DOMAIN itinerary =>
                  itinerary.duration_days
                      = HalfDays(Days(itinerary.end_date.t - itinerary.start_date.t) + 1)
    /\ (last.op = "update_itinerary" /\ resp.status # 200) =>
           StoredItinerary(table, last.user_id) = StoredItinerary(last.pre, last.user_id)

StoredBookings(tbl, u) == Get(tbl[u], "Bookings", <<>>)

\* The one change allowed to a stored booking: confirmed becomes cancelled
\* and a cancellation time is added.
CancelledFrom(old, new) ==
    /\ Get(old, "status", "") = "confirmed"
    /\ "cancelled_at" \in DOMAIN new
    /\ new = Put(Put(old, "status", "cancelled"), "cancelled_at", new["cancelled_at"])

\* C19: in every step the stored bookings of a user keep every booking they
\* held, in place, each one unchanged or changed from confirmed to cancelled
\* with a cancellation time.
C19_BookingsAppendOnly ==
    [][\A u \in Users :
          LET old == StoredBookings(table, u)
              new == StoredBookings(table', u)
          IN /\ Len(new) >= Len(old)
             /\ \A i \in DOMAIN old : new[i] = old[i] \/ CancelledFrom(old[i], new[i])]_vars

Writers == {p \in Processes : inflight[p].order > 0}

LastWriter == CHOOSE p \in Writers : \A q \in Writers : inflight[q].order <= inflight[p].order

AllDone == \A p \in Processes : inflight[p].pc = "done"

RaceSafe ==
    /\ \A p \in Processes :
           inflight[p].pc = "done" =>
               /\ inflight[p].response.status = 200
               /\ inflight[p].response.body.alerts = inflight[p].alerts
    /\ Writers # {} =>
           StoredList(table, "u1", "current_alerts") = inflight[LastWriter].alerts

\* C20: of two refresh calls for one user running at once, each comes to its
\* end with a response, and the stored current_alerts is always the whole
\* list of the call that wrote last.
C20_LastWriterWins == []RaceSafe /\ <>AllDone

\* Both calls have read before either wrote, both wrote, and their lists
\* differ.
C20_Witness ==
    /\ AllDone
    /\ Writers = Processes
    /\ \E p \in Processes : inflight[p].raced
    /\ inflight[1].alerts # inflight[2].alerts

\* The weather keywords found on the days of the forecasts handed to a call.
WetDays(wx) ==
    { <<i, j>> \in UNION { {i} \X DOMAIN wx[i].result.forecast : i \in DOMAIN wx } :
          KeywordsIn(wx[i].result.forecast[j].conditions.description) # {} }

\* The record holds one confirmed flight leaving 23 hours after t and an
\* itinerary with one destination.
OneFlightOneDestination(tbl, u, t) ==
    LET user_data == get_user_data(tbl, u, TRUE)
        bookings == BookingsOf(user_data)
    IN /\ Len(bookings) = 1
       /\ bookings[1].type = "flight" /\ bookings[1].status = "confirmed"
       /\ Parses(bookings[1].details.departure_date)
       /\ bookings[1].details.departure_date.t - t = 23
       /\ Len(DestinationsOf(user_data)) = 1

\* C21: a refresh for a user with one confirmed flight leaving in 23 hours and
\* one destination whose forecast has one day of "Heavy Rain" and no other
\* keyword day, without news or documents, returns exactly two alerts: the
\* flight_checkin_reminder (priority 3) and then the weather_advisory
\* (priority 2).
C21_EndToEnd ==
    ( /\ last.op = "refresh"
      /\ last.found
      /\ OneFlightOneDestination(last.pre, last.user_id, last.t)
      /\ Cardinality(WetDays(last.input.wx)) = 1
      /\ \A d \in WetDays(last.input.wx) :
             last.input.wx[d[1]].result.forecast[d[2]].conditions.description = "Heavy Rain" )
    => /\ resp.status = 200
       /\ Len(resp.body.alerts) = 2
       /\ resp.body.alerts[1].type = "flight_checkin_reminder"
       /\ resp.body.alerts[1].priority = 3
       /\ resp.body.alerts[2].type = "weather_advisory"
       /\ resp.body.alerts[2].priority = 2

\* C22: callers that all find the token missing or expired send at most one
\* token request: no two requests of one FlightsAPI instance are out at the
\* same time.
C22_SingleFlight ==
    Cardinality({p \in Processes : inflight[p].pc = "requesting"}) <= 1

\* The token in use is the one stored last and the clock is before the time
\* it was stored plus its lifetime less the margin.
TokenValid ==
    /\ flights_api.access_token # ""
    /\ flights_api.issued # -1
    /\ Seconds(now) < flights_api.issued + flights_api.expires_in - 60

TokenCall == last'.op = "token_check" /\ calls' # calls

\* C23: a call reuses the cached token without contacting the provider
\* exactly while the clock is before issue time + expires_in - 60 s and
\* requests a new token otherwise; a failed refresh returns False and leaves
\* the cache such that the next call requests a token again (unless another
\* caller stored one meanwhile).
C23_TokenReuse ==
    /\ [][TokenCall => (~last'.input.contacted <=> TokenValid)]_vars
    /\ []((last.op = "token_response" /\ ~last.input.ret)
           => /\ resp.body.ret = FALSE
              /\ (~last.input.raced => ~token_cached(flights_api, Seconds(now))))

\* C24: the relevance score lies in [0.0, 1.0] and is min(1.0, 0.5 + 0.3 +
\* 0.4 + 0.2 + recency) over the components that apply (in tenths here), for
\* every combination of the four components and every publish time; a
\* missing or malformed publishedAt gives a recency bonus of 0 and no error.
C24_RelevanceBounded ==
    last.op = "calculate_relevance" =>
        LET article == last.input.article
            score == resp.body
            components == (IF article.location_in_title THEN 5 ELSE 0)
                          + (IF article.location_in_description THEN 3 ELSE 0)
                          + (IF article.priority_keyword THEN 4 ELSE 0)
                          + (IF article.medium_keyword THEN 2 ELSE 0)
            unreadable == "publishedAt" \notin DOMAIN article
                          \/ article.publishedAt.fmt = "garbage"
        IN /\ score \in 0..10
           /\ \E recency \in 0..2 :
                  /\ unreadable => recency = 0
                  /\ score = IF components + recency < 10 THEN components + recency ELSE 10

\* Every component applies and publishedAt does not parse: the sum of 1.4 is
\* cut to 1.0.
C24_Witness ==
    /\ last.op = "calculate_relevance"
    /\ last.input.article.location_in_title
    /\ last.input.article.location_in_description
    /\ last.input.article.priority_keyword
    /\ last.input.article.medium_keyword
    /\ "publishedAt" \in DOMAIN last.input.article
    /\ last.input.article.publishedAt.fmt = "garbage"
    /\ resp.body = 10

\* C25: the article list get_travel_news returns, whichever source produced
\* it, is sorted by relevance_score in non-increasing order and has at most
\* 10 articles.
C25_SortedAndCapped ==
    (last.op = "get_travel_news" /\ ~Falsy(resp.body.result)) =>
        LET articles == resp.body.result.articles IN
        /\ Len(articles) <= 10
        /\ \A i \in 1..(Len(articles) - 1) :
               articles[i].relevance_score >= articles[i + 1].relevance_score

\* The itinerary, bookings and preferences get_user_data reads from a table.
ReadBack(tbl, u) ==
    LET user_data == get_user_data(tbl, u, TRUE) IN
    [field \in {"current_itinerary", "bookings", "preferences"} |->
        IF Falsy(user_data) THEN None ELSE Get(user_data, field, None)]

\* C26: a refresh changes only current_alerts and last_alert_check: the
\* itinerary, bookings and preferences read back after it are what they were
\* before it.
C26_RefreshFrame ==
    (last.op = "refresh" /\ last.user_id \in Users) =>
        ReadBack(table, last.user_id) = ReadBack(last.pre, last.user_id)

\* C27: after create_itinerary has succeeded with destination D, a following
\* refresh for that user consults the forecast (and the travel news) for D.
C27_CreatedItineraryEvaluated ==
    [][ ( /\ last.op = "create_itinerary"
          /\ resp.status = 200
          /\ last'.op = "refresh"
          /\ last'.user_id = last.user_id
          /\ last'.found )
        => LET destinations == DestinationsOf(get_user_data(table, last.user_id, TRUE)) IN
           \E i \in DOMAIN destinations :
               /\ ForecastCalled(destinations[i])
               /\ destinations[i].location = last.input.destination ]_vars

\* C28: every confirmed flight booking whose departure parses and lies inside
\* a reminder window gets its reminder, whatever bookings stand before it in
\* the list and also when its departure carries a timezone suffix.
C28_BookingsIndependent ==
    last.op = "check_flight_alerts" =>
        \A i \in DOMAIN last.input.bookings :
            LET booking == last.input.bookings[i] IN
            ~PassedOver(booking) =>
                LET time_diff == booking.details.departure_date.t - last.t IN
                ((22 <= time_diff /\ time_diff <= 24) \/ (2 <= time_diff /\ time_diff <= 3))
                => \E a \in Range(AlertsFor(last.emitted.flight, i)) :
                       a.type \in {"flight_checkin_reminder", "departure_reminder"}

\* C29: once two calls for one user that ran at once have completed, every
\* booking whose confirmation was answered with success is among the stored
\* bookings, and a booking whose cancellation was answered with success is
\* stored as cancelled.
C29_NoBookingLost ==
    AllDone =>
        \A p \in Processes :
            inflight[p].response.status = 200 =>
                /\ inflight[p].data.op = "confirm_booking" =>
                       \E b \in Range(StoredBookings(table, "u1")) :
                           /\ b.type = inflight[p].data.booking_type
                           /\ b.details = inflight[p].data.selection
                /\ inflight[p].data.op = "cancel_booking" =>
                       \A b \in Range(StoredBookings(table, "u1")) :
                           b.booking_id = inflight[p].data.booking_id
                           => b.status = "cancelled"

\* C30: the booking ids within a user's stored bookings are pairwise
\* distinct, also after two confirm_booking calls at the same clock value,
\* and a successful cancel_booking changes the status of exactly one booking.
C30_BookingIdsUnique ==
    \A u \in Users :
        LET stored == StoredBookings(table, u)
            before == StoredBookings(last.pre, u)
        IN /\ \A i, j \in DOMAIN stored :
                  stored[i].booking_id = stored[j].booking_id => i = j
           /\ (last.op = "cancel_booking" /\ last.user_id = u /\ resp.status = 200)
              => /\ Len(stored) = Len(before)
                 /\ Cardinality({ i \in DOMAIN stored :
                                    stored[i].status /= before[i].status }) = 1

====
